---- MODULE Spec2Model ----
(***************************************************************************)
(* tween-list: the visibility strategies (InfiniteLoopStrategy,            *)
(* InfiniteHierarchyStrategy, InfiniteHierarchySelectionStrategy).         *)
(*                                                                         *)
(* Strings are sequences of one-character strings, so that building a      *)
(* composite id ("<id>__<index>") and taking it apart again (lastIndexOf,  *)
(* split, parseInt) are computed the way the code computes them.           *)
(* Sequences are 1-based here; offsets, slots and JavaScript string        *)
(* indices keep their 0-based values.                                      *)
(***************************************************************************)
EXTENDS Integers, Sequences, FiniteSets, TLC

VARIABLES
    kind,                       \* which strategy class was constructed
    flatItems,                  \* hierarchy strategies: FlatItem[]
    items,                      \* InfiniteLoopStrategy: items[]
    itemsById,                  \* InfiniteLoopStrategy: Map id -> item
    itemVersions,               \* Map id -> version
    selectedIds,                \* selection strategy: Set<string>
    phase,                      \* "idle" | "resolving" | "returned"
    position,                   \* argument of the current getItemsAtPosition
    viewportSlots,              \* argument of the current getItemsAtPosition
    sectionIdx,                 \* for (const section of sections): 1-based
    previousStickyStack,        \* local of resolveStickyHeaders
    currentSectionStickyStack,  \* local of resolveStickyHeaders
    evicted,                    \* what the last iteration popped, <<>> if nothing
    result,                     \* the list the last call returned
    thrown,                     \* the error the last call threw, or "none"
    lastCall,                   \* the public method called last and its arguments
    answer,                     \* what the last call returned when not a list
    onSelectionChangeCallback,  \* selection strategy: is a callback registered
    notified,                   \* the sets the last call passed to the callback
    tweenSlots,                 \* TweenList: viewportSlots, from height / slotHeight
    scrollPosition,             \* TweenList: useState, in steps of 1/TSteps
    itemsAtFloor,               \* TweenList: snapshot at floor
    itemsAtCeil,                \* TweenList: snapshot at ceil
    t,                          \* interpolation factor, in steps of 1/TSteps
    prevItems,                  \* TweenList: prevItemsRef.current
    interpolatedItems,          \* TweenList: the items of the last frame
    sinceFrame,                 \* the version-changing calls since the last frame
    scrollTop,                  \* TweenList: container.scrollTop, in pixels
    animationRafRef,            \* TweenList: the scrollTo call whose animate is requested, 0 for null
    promises                    \* the promises scrollTo returned, in call order

vars == <<kind, flatItems, items, itemsById, itemVersions, selectedIds, phase,
          position, viewportSlots, sectionIdx, previousStickyStack,
          currentSectionStickyStack, evicted, result, thrown, lastCall, answer,
          onSelectionChangeCallback, notified, tweenSlots, scrollPosition,
          itemsAtFloor, itemsAtCeil, t, prevItems, interpolatedItems, sinceFrame,
          scrollTop, animationRafRef, promises>>

\* the state of a TweenList component
frameVars == <<tweenSlots, scrollPosition, itemsAtFloor, itemsAtCeil, t,
               prevItems, interpolatedItems>>

\* the state of the imperative scrollTo handle
scrollVars == <<scrollTop, animationRafRef, promises>>

\* the component with what the strategy was told since it rendered
tweenVars == <<frameVars, sinceFrame, scrollVars>>

-----------------------------------------------------------------------------
(* Bounds of the model *)

MaxPos == 8
MaxSlots == 5
MaxSelected == 3
MaxVersion == 2
MaxSafePos == 2
MaxSafeSlots == 2
MaxScroll == 1
MaxIdx == 12
MaxCalls == 3
MaxFrames == 2
TSteps == 2

Positions == (0 - MaxPos)..MaxPos
Viewports == 0..MaxSlots

-----------------------------------------------------------------------------
(* JavaScript primitives *)

\* parseInt of a string without a leading number
NaN == -1000000

Max(S) == CHOOSE x \in S : \A y \in S : y <= x
Min(S) == CHOOSE x \in S : \A y \in S : x <= y

\* a % n of JavaScript: the result takes the sign of the dividend
JsRem(a, n) == IF a >= 0 THEN a % n ELSE 0 - ((0 - a) % n)

\* Math.floor(a / n) for n > 0
FloorDiv(a, n) == a \div n

DigitChars == <<"0", "1", "2", "3", "4", "5", "6", "7", "8", "9">>

RECURSIVE NatToStr(_)
NatToStr(n) ==
    IF n < 10 THEN <<DigitChars[n + 1]>>
    ELSE NatToStr(n \div 10) \o <<DigitChars[(n % 10) + 1]>>

\* String(number) for an integer, as a template literal formats it
NumberToString(i) == IF i < 0 THEN <<"-">> \o NatToStr(0 - i) ELSE NatToStr(i)

IsDigit(c) == \E d \in 1..10 : DigitChars[d] = c
DigitValue(c) == (CHOOSE d \in 1..10 : DigitChars[d] = c) - 1

\* the 0-based indices at which "__" occurs in s
SeparatorMatches(s) ==
    {i \in 0..(Len(s) - 2) : s[i + 1] = "_" /\ s[i + 2] = "_"}

\* s.lastIndexOf('__')
lastIndexOf(s) ==
    IF SeparatorMatches(s) = {} THEN -1 ELSE Max(SeparatorMatches(s))

\* s.split('__'): the last part. split scans from the left and continues
\* after each match, so matches never overlap.
RECURSIVE SplitLastPart(_, _)
SplitLastPart(s, from) ==
    LET later == {i \in SeparatorMatches(s) : i >= from}
    IN  IF later = {} THEN SubSeq(s, from + 1, Len(s))
        ELSE SplitLastPart(s, Min(later) + 2)

RECURSIVE ParseDigits(_, _, _)
ParseDigits(s, i, acc) ==
    IF i <= Len(s) /\ IsDigit(s[i])
    THEN ParseDigits(s, i + 1, acc * 10 + DigitValue(s[i]))
    ELSE acc

\* parseInt(s, 10): an optional sign, then the longest prefix of digits
parseInt(s) ==
    LET signed == Len(s) >= 1 /\ s[1] \in {"-", "+"}
        first == IF signed THEN 2 ELSE 1
        magnitude == ParseDigits(s, first, 0)
    IN  IF first > Len(s) \/ ~IsDigit(s[first]) THEN NaN
        ELSE IF signed /\ s[1] = "-" THEN 0 - magnitude ELSE magnitude

\* `${originalId}__${absoluteIndex}`
UniqueId(originalId, absoluteIndex) ==
    originalId \o <<"_", "_">> \o NumberToString(absoluteIndex)

getOriginalId(uniqueId) ==
    LET separatorIndex == lastIndexOf(uniqueId)
    IN  IF separatorIndex # -1 THEN SubSeq(uniqueId, 1, separatorIndex)
        ELSE uniqueId

getAbsoluteIndexFromUniqueId(uniqueId) == parseInt(SplitLastPart(uniqueId, 0))

-----------------------------------------------------------------------------
(* Source trees *)

Node(id, children) == [id |-> id, children |-> children]
Leaf(id) == Node(id, <<>>)

IdRoot == <<"r", "o", "o", "t">>
IdChild1 == <<"c", "h", "i", "l", "d", "1">>
IdChild2 == <<"c", "h", "i", "l", "d", "2">>
IdGrandchild1 == <<"g", "r", "a", "n", "d", "c", "h", "i", "l", "d", "1">>
IdGrandchild2 == <<"g", "r", "a", "n", "d", "c", "h", "i", "l", "d", "2">>
IdGrandchild3 == <<"g", "r", "a", "n", "d", "c", "h", "i", "l", "d", "3">>

\* root -> child1 -> {grandchild1, grandchild2}, root -> child2 -> grandchild3
TreeTest ==
    <<Node(IdRoot,
           <<Node(IdChild1, <<Leaf(IdGrandchild1), Leaf(IdGrandchild2)>>),
             Node(IdChild2, <<Leaf(IdGrandchild3)>>)>>)>>

\* two roots with one child each
TreePairs == <<Node(<<"a">>, <<Leaf(<<"b">>)>>), Node(<<"c">>, <<Leaf(<<"d">>)>>)>>

\* one root with two children; ids with a single underscore inside
TreeFan == <<Node(<<"p">>, <<Leaf(<<"q", "_", "1">>), Leaf(<<"q", "_", "2">>)>>)>>

\* a childless root followed by a root with a child
TreeMixed == <<Leaf(<<"x">>), Node(<<"y">>, <<Leaf(<<"z">>)>>)>>

TreeSingle == <<Leaf(<<"s">>)>>

TreeEmpty == <<>>

Trees == {TreeTest, TreePairs, TreeFan, TreeMixed, TreeSingle, TreeEmpty}

\* an id that no tree holds
IdUnknown == <<"n", "o">>

-----------------------------------------------------------------------------
(* TreeFlattener: flattenItems *)

RECURSIVE flattenItems(_, _, _)
flattenItems(nodes, depth, parents) ==
    IF nodes = <<>> THEN <<>>
    ELSE LET item == Head(nodes)
             flatItem == [id |-> item.id, depth |-> depth, parents |-> parents]
             children == IF Len(item.children) > 0
                         THEN flattenItems(item.children, depth + 1,
                                           Append(parents, item.id))
                         ELSE <<>>
         IN  <<flatItem>> \o children \o flattenItems(Tail(nodes), depth, parents)

FlatIds == {flatItems[i].id : i \in 1..Len(flatItems)}

\* this.flatItemsById.has(id)
HasFlatItem(id) == id \in FlatIds

\* this.flatItems.indexOf(this.flatItemsById.get(id)), 0-based; the map keeps
\* the last item written under an id
flatIndexOf(id) == Max({i \in 1..Len(flatItems) : flatItems[i].id = id}) - 1

flatItemById(id) == flatItems[flatIndexOf(id) + 1]

\* this.itemVersions.get(id); undefined is not a number and is kept apart
Undefined == -1
versionOf(id) == IF id \in DOMAIN itemVersions THEN itemVersions[id] ELSE Undefined

-----------------------------------------------------------------------------
(* PositionResolver: generateNaturalSlots *)

PositionedItem(id, offset, index, version) ==
    [id |-> id, offset |-> offset, index |-> index, version |-> version]

\* the slot as it would be with the negative remainder mirrored instead of
\* wrapped into [0, N)
naturalSlotAtMirrored(pos, slot) ==
    LET absoluteIndex == pos + slot
        rem == JsRem(absoluteIndex, Len(flatItems))
        itemIndex == IF rem < 0 THEN 0 - rem ELSE rem
        flatItem == flatItems[itemIndex + 1]
    IN  PositionedItem(UniqueId(flatItem.id, absoluteIndex), slot, absoluteIndex,
                       versionOf(flatItem.id))

naturalSlotAt(pos, slot) ==
    LET absoluteIndex == pos + slot
        rem == JsRem(absoluteIndex, Len(flatItems))
        itemIndex == IF rem < 0 THEN rem + Len(flatItems) ELSE rem
        flatItem == flatItems[itemIndex + 1]
    IN  PositionedItem(UniqueId(flatItem.id, absoluteIndex), slot, absoluteIndex,
                       versionOf(flatItem.id))

generateNaturalSlots(pos, slots) == [s \in 1..slots |-> naturalSlotAt(pos, s - 1)]

-----------------------------------------------------------------------------
(* SectionGrouper: groupItemsIntoSections *)

Section(rootId, sectionItems) == [rootId |-> rootId, items |-> sectionItems]

\* one pass of the for loop over naturalSlots[i..]; sections holds the sections
\* opened so far (the last one is currentSection), lastFlatIndex is -1 at first
RECURSIVE groupFrom(_, _, _, _)
groupFrom(naturalSlots, i, sections, lastFlatIndex) ==
    IF i > Len(naturalSlots) THEN sections
    ELSE LET item == naturalSlots[i]
             originalId == getOriginalId(item.id)
         IN  IF ~HasFlatItem(originalId)
             THEN groupFrom(naturalSlots, i + 1, sections, lastFlatIndex)
             ELSE LET flatItem == flatItemById(originalId)
                      flatIndex == flatIndexOf(originalId)
                      rootId == IF Len(flatItem.parents) > 0
                                THEN flatItem.parents[1] ELSE flatItem.id
                      isWrap == lastFlatIndex # -1 /\ flatIndex < lastFlatIndex
                      isNewRoot == sections = <<>>
                                   \/ sections[Len(sections)].rootId # rootId
                      opened == IF isNewRoot \/ isWrap
                                THEN Append(sections, Section(rootId, <<>>))
                                ELSE sections
                      last == Len(opened)
                      pushed == [opened EXCEPT
                                    ![last].items = Append(opened[last].items, item)]
                  IN  groupFrom(naturalSlots, i + 1, pushed, flatIndex)

groupItemsIntoSections(naturalSlots) == groupFrom(naturalSlots, 1, <<>>, -1)

-----------------------------------------------------------------------------
(* StickyResolver: helpers shared by both hierarchy strategies *)

\* effectiveList.some(s => this.getOriginalId(s.id) === id)
inSticky(effectiveList, id) ==
    \E j \in 1..Len(effectiveList) : getOriginalId(effectiveList[j].id) = id

\* the parent's id as it would be without the child's loop iteration
calculateParentUniqueIdInFirstLoop(childFlatItem, parentId, childAbsoluteIndex) ==
    UniqueId(parentId, flatIndexOf(parentId))

calculateParentUniqueId(childFlatItem, parentId, childAbsoluteIndex) ==
    LET childFlatIndex == flatIndexOf(childFlatItem.id)
        parentFlatIndex == flatIndexOf(parentId)
        distance == childFlatIndex - parentFlatIndex
        parentAbsoluteIndex == childAbsoluteIndex - distance
    IN  UniqueId(parentId, parentAbsoluteIndex)

\* the search as it would be without "si.offset >= effectiveCount"
naturalParentAnywhere(sectionItems, parentUniqueId, effectiveCount) ==
    \E j \in 1..Len(sectionItems) : sectionItems[j].id = parentUniqueId

\* sectionItems.find(si => si.id === parentUniqueId && si.offset >= effectiveCount)
naturalParent(sectionItems, parentUniqueId, effectiveCount) ==
    \E j \in 1..Len(sectionItems) :
        /\ sectionItems[j].id = parentUniqueId
        /\ sectionItems[j].offset >= effectiveCount

\* the for loop over flatItem.parents from parents[n] on; <<>> stands for null
RECURSIVE missingParentFrom(_, _, _, _, _, _)
missingParentFrom(item, flatItem, n, effectiveList, sectionItems, effectiveCount) ==
    IF n > Len(flatItem.parents) THEN <<>>
    ELSE LET parentId == flatItem.parents[n]
             parentUniqueId == calculateParentUniqueId(flatItem, parentId, item.index)
         IN  IF inSticky(effectiveList, parentId)
             THEN missingParentFrom(item, flatItem, n + 1, effectiveList,
                                    sectionItems, effectiveCount)
             ELSE IF ~HasFlatItem(parentId)
             THEN missingParentFrom(item, flatItem, n + 1, effectiveList,
                                    sectionItems, effectiveCount)
             ELSE IF naturalParent(sectionItems, parentUniqueId, effectiveCount)
             THEN missingParentFrom(item, flatItem, n + 1, effectiveList,
                                    sectionItems, effectiveCount)
             ELSE <<PositionedItem(parentUniqueId, 0,
                                   getAbsoluteIndexFromUniqueId(parentUniqueId),
                                   versionOf(parentId))>>

\* <<>> when every parent is sticky or naturally visible, else <<the sticky item>>
findMissingParent(item, effectiveList, sectionItems, effectiveCount) ==
    LET originalId == getOriginalId(item.id)
    IN  IF ~HasFlatItem(originalId) THEN <<>>
        ELSE missingParentFrom(item, flatItemById(originalId), 1, effectiveList,
                               sectionItems, effectiveCount)

\* the scan "for (let i = section.items.length - 1; i >= 0; i--)" from item i
\* down: <<>> if no uncovered item misses a parent, else <<the sticky item>>
RECURSIVE scanFrom(_, _, _)
scanFrom(sectionItems, i, effectiveList) ==
    IF i < 1 THEN <<>>
    ELSE IF sectionItems[i].offset < Len(effectiveList)
    THEN scanFrom(sectionItems, i - 1, effectiveList)
    ELSE LET missingParentInfo == findMissingParent(sectionItems[i], effectiveList,
                                                    sectionItems, Len(effectiveList))
         IN  IF missingParentInfo # <<>> THEN missingParentInfo
             ELSE scanFrom(sectionItems, i - 1, effectiveList)

sectionHasUncoveredItems(sectionItems, effectiveCount) ==
    \E j \in 1..Len(sectionItems) : sectionItems[j].offset >= effectiveCount

\* finalSlots after naturalSlots.forEach(item => finalSlots.set(item.offset, item))
naturalFinalSlots(naturalSlots) ==
    [o \in {naturalSlots[j].offset : j \in 1..Len(naturalSlots)} |->
        naturalSlots[CHOOSE j \in 1..Len(naturalSlots) : naturalSlots[j].offset = o]]

\* the slots as they would be if the sticky items replaced the natural ones
\* altogether
setStickySlotsOnly(slots, stickyList) ==
    IF stickyList = <<>> THEN slots
    ELSE [o \in {j - 1 : j \in 1..Len(stickyList)} |->
            [stickyList[o + 1] EXCEPT !.offset = o]]

\* stickyList.forEach((stickyItem, index) => { stickyItem.offset = index;
\*                                             slots.set(index, stickyItem) })
setStickySlots(slots, stickyList) ==
    [o \in (DOMAIN slots) \cup {j - 1 : j \in 1..Len(stickyList)} |->
        IF o < Len(stickyList) THEN [stickyList[o + 1] EXCEPT !.offset = o]
        ELSE slots[o]]

\* Array.from(finalSlots.values()).sort((a, b) => a.offset - b.offset):
\* the values in ascending order of offset (insertion sort, stable)
RECURSIVE insertByOffset(_, _)
insertByOffset(sorted, x) ==
    IF sorted = <<>> THEN <<x>>
    ELSE IF sorted[Len(sorted)].offset - x.offset > 0
    THEN Append(insertByOffset(SubSeq(sorted, 1, Len(sorted) - 1), x),
                sorted[Len(sorted)])
    ELSE Append(sorted, x)

RECURSIVE sortedValues(_, _)
sortedValues(slots, keys) ==
    IF keys = {} THEN <<>>
    ELSE LET key == Max(keys)
         IN  insertByOffset(sortedValues(slots, keys \ {key}), slots[key])

-----------------------------------------------------------------------------
(* InfiniteHierarchyStrategy.resolveStickyHeaders *)

\* the sticky items set into their slots without "stickyItem.offset = index"
applyStickyItemsKeepingOffset(slots, stickyList) ==
    [o \in (DOMAIN slots) \cup {j - 1 : j \in 1..Len(stickyList)} |->
        IF o < Len(stickyList) THEN stickyList[o + 1] ELSE slots[o]]

applyStickyItemsToSlots(slots, stickyList) == setStickySlots(slots, stickyList)

\* apply the sticky list and return the slots in ascending order of offset
composeResult(naturalSlots, stickyList) ==
    LET finalSlots == applyStickyItemsToSlots(naturalFinalSlots(naturalSlots),
                                              stickyList)
    IN  sortedValues(finalSlots, DOMAIN finalSlots)

\* the loop state as it would be if a restart pushed nothing
LoopStateWithoutPush(prev, cur, sec, done, popped, list) ==
    [prev |-> prev,
     cur |-> IF done \/ cur = <<>> THEN cur ELSE SubSeq(cur, 1, Len(cur) - 1),
     sec |-> sec, done |-> done, evicted |-> popped, result |-> list]

\* the loop state as it would be if only the newest header of the section were kept
LoopStateNewestOnly(prev, cur, sec, done, popped, list) ==
    [prev |-> prev, cur |-> IF cur = <<>> THEN cur ELSE <<cur[Len(cur)]>>,
     sec |-> sec, done |-> done, evicted |-> popped, result |-> list]

LoopState(prev, cur, sec, done, popped, list) ==
    [prev |-> prev, cur |-> cur, sec |-> sec, done |-> done,
     evicted |-> popped, result |-> list]

\* previousStickyStack.pop(), when the stack is not empty
popLast(stack) == IF Len(stack) > 0 THEN SubSeq(stack, 1, Len(stack) - 1) ELSE stack
poppedOf(stack) == IF Len(stack) > 0 THEN <<stack[Len(stack)]>> ELSE <<>>

\* One pass of the body of "while (restartSection)" for section sec, followed,
\* when the loop is left by break, by the propagation of the stack to the next
\* section or by the fallback after the last section.
resolveIteration(naturalSlots, sections, sec, prev, cur) ==
    LET section == sections[sec]
        effectiveList == prev \o cur
        missingParentInfo == scanFrom(section.items, Len(section.items), effectiveList)
    IN  IF missingParentInfo # <<>>
        THEN LoopState(popLast(prev), cur \o missingParentInfo, sec, FALSE,
                       poppedOf(prev), <<>>)
        ELSE IF ~sectionHasUncoveredItems(section.items, Len(effectiveList))
        THEN IF sec < Len(sections)
             THEN LoopState(prev \o cur, <<>>, sec + 1, FALSE, <<>>, <<>>)
             ELSE LoopState(prev \o cur, <<>>, sec, TRUE, <<>>,
                            composeResult(naturalSlots, prev \o cur))
        ELSE LoopState(prev, cur, sec, TRUE, <<>>,
                       composeResult(naturalSlots, prev \o cur))

RECURSIVE resolveFrom(_, _, _, _, _)
resolveFrom(naturalSlots, sections, sec, prev, cur) ==
    LET next == resolveIteration(naturalSlots, sections, sec, prev, cur)
    IN  IF next.done THEN next.result
        ELSE resolveFrom(naturalSlots, sections, next.sec, next.prev, next.cur)

resolveStickyHeaders(naturalSlots, sections) ==
    IF sections = <<>> THEN composeResult(naturalSlots, <<>>)
    ELSE resolveFrom(naturalSlots, sections, 1, <<>>, <<>>)

\* InfiniteHierarchyStrategy.getItemsAtPosition, from call to return
getItemsAtPosition(pos, slots) ==
    IF Len(flatItems) = 0 THEN <<>>
    ELSE LET naturalSlots == generateNaturalSlots(pos, slots)
         IN  resolveStickyHeaders(naturalSlots, groupItemsIntoSections(naturalSlots))

-----------------------------------------------------------------------------
(* InfiniteHierarchySelectionStrategy: SelectionAugmentation *)

\* (a, b) => (a.index ?? 0) - (b.index ?? 0); a NaN difference counts as 0
compareByIndex(a, b) ==
    IF a.index = NaN \/ b.index = NaN THEN 0 ELSE a.index - b.index

\* list.sort(compareByIndex): stable
RECURSIVE insertByIndex(_, _)
insertByIndex(sorted, x) ==
    IF sorted = <<>> THEN <<x>>
    ELSE IF compareByIndex(sorted[Len(sorted)], x) > 0
    THEN Append(insertByIndex(SubSeq(sorted, 1, Len(sorted) - 1), x),
                sorted[Len(sorted)])
    ELSE Append(sorted, x)

\* the sort as it would be with the comparison reversed
RECURSIVE sortByIndexDescending(_)
sortByIndexDescending(list) ==
    IF list = <<>> THEN <<>>
    ELSE LET rest == sortByIndexDescending(SubSeq(list, 1, Len(list) - 1))
             x == list[Len(list)]
             before == SelectSeq(rest, LAMBDA y : compareByIndex(x, y) <= 0)
             after == SelectSeq(rest, LAMBDA y : compareByIndex(x, y) > 0)
         IN  before \o <<x>> \o after

RECURSIVE sortByIndex(_)
sortByIndex(list) ==
    IF list = <<>> THEN <<>>
    ELSE insertByIndex(sortByIndex(SubSeq(list, 1, Len(list) - 1)), list[Len(list)])

\* the occurrence as it would be chosen with "candidate >= position"
getClosestInstanceStrictlyAbove(id, pos) ==
    LET totalItems == Len(flatItems)
        itemIndex == flatIndexOf(id)
        loopStart == FloorDiv(pos, totalItems) * totalItems
        candidate == loopStart + itemIndex
    IN  IF candidate >= pos THEN candidate - totalItems ELSE candidate

getClosestInstanceAbove(id, pos) ==
    LET totalItems == Len(flatItems)
        itemIndex == flatIndexOf(id)
        loopStart == FloorDiv(pos, totalItems) * totalItems
        candidate == loopStart + itemIndex
    IN  IF candidate > pos THEN candidate - totalItems ELSE candidate

\* the elements of a finite set in some order (the order of "selectedIds.forEach"
\* is the order of insertion; the sort that follows fixes the final order
\* because distinct ids get distinct indices)
RECURSIVE setToSeq(_)
setToSeq(S) ==
    IF S = {} THEN <<>>
    ELSE LET x == CHOOSE y \in S : TRUE IN <<x>> \o setToSeq(S \ {x})

\* the pre-seeding as it would be without "!naturalIds.has(id)"
getInitialSelectedOfAll(selected, pos, naturalSlots) ==
    LET pinned == {id \in selected : HasFlatItem(id)}
        order == setToSeq(pinned)
        initialSticky ==
            [j \in 1..Len(order) |->
                LET absoluteIndex == getClosestInstanceAbove(order[j], pos)
                IN  PositionedItem(UniqueId(order[j], absoluteIndex), 0,
                                   absoluteIndex, versionOf(order[j]))]
    IN  sortByIndex(initialSticky)

getInitialSelectedStickyStack(selected, pos, naturalSlots) ==
    LET naturalIds == {getOriginalId(naturalSlots[j].id) : j \in 1..Len(naturalSlots)}
        pinned == {id \in selected : id \notin naturalIds /\ HasFlatItem(id)}
        order == setToSeq(pinned)
        initialSticky ==
            [j \in 1..Len(order) |->
                LET absoluteIndex == getClosestInstanceAbove(order[j], pos)
                IN  PositionedItem(UniqueId(order[j], absoluteIndex), 0,
                                   absoluteIndex, versionOf(order[j]))]
    IN  sortByIndex(initialSticky)

\* the for loop "for (let i = 0; i < effectiveCount; i++)" from slot i on;
\* <<>> stands for null
RECURSIVE coveredSelectedFrom(_, _, _, _)
coveredSelectedFrom(selected, naturalSlots, effectiveList, i) ==
    IF i >= Len(effectiveList) \/ i >= Len(naturalSlots) THEN <<>>
    ELSE LET naturalItem == naturalSlots[i + 1]
             originalId == getOriginalId(naturalItem.id)
         IN  IF inSticky(effectiveList, originalId)
             THEN coveredSelectedFrom(selected, naturalSlots, effectiveList, i + 1)
             ELSE IF originalId \in selected
             THEN <<[naturalItem EXCEPT !.offset = 0]>>
             ELSE coveredSelectedFrom(selected, naturalSlots, effectiveList, i + 1)

\* the rescue as it would be if covered slots were never looked at
findNoCoveredSelected(selected, naturalSlots, effectiveList) == <<>>

findCoveredSelected(selected, naturalSlots, effectiveList) ==
    coveredSelectedFrom(selected, naturalSlots, effectiveList, 0)

\* the sticky items set into their slots without "stickyItem.offset = index"
selApplyStickyItemsKeepingOffset(slots, stickyList) ==
    applyStickyItemsKeepingOffset(slots, sortByIndex(stickyList))

selApplyStickyItemsToSlots(slots, stickyList) ==
    setStickySlots(slots, sortByIndex(stickyList))

selComposeResult(naturalSlots, stickyList) ==
    LET finalSlots == selApplyStickyItemsToSlots(naturalFinalSlots(naturalSlots),
                                                 stickyList)
    IN  sortedValues(finalSlots, DOMAIN finalSlots)

\* the conflict resolution as it would be without the selectedIds check
selPopLastUnprotected(selected, stack) ==
    IF Len(stack) > 0 THEN SubSeq(stack, 1, Len(stack) - 1) ELSE stack

\* the conflict resolution: pop the last of previousStickyStack unless its
\* original id is selected
selPopLast(selected, stack) ==
    IF Len(stack) > 0 /\ getOriginalId(stack[Len(stack)].id) \notin selected
    THEN SubSeq(stack, 1, Len(stack) - 1)
    ELSE stack

selPoppedOf(selected, stack) ==
    IF Len(stack) > 0 /\ getOriginalId(stack[Len(stack)].id) \notin selected
    THEN <<stack[Len(stack)]>>
    ELSE <<>>

\* One pass of the body of "while (restartSection)" of the selection variant
selResolveIteration(selected, naturalSlots, sections, sec, prev, cur) ==
    LET section == sections[sec]
        effectiveList == prev \o cur
        itemToSticky == findCoveredSelected(selected, naturalSlots, effectiveList)
        missingParentInfo == scanFrom(section.items, Len(section.items), effectiveList)
    IN  IF itemToSticky # <<>>
        THEN LoopState(prev, cur \o itemToSticky, sec, FALSE, <<>>, <<>>)
        ELSE IF missingParentInfo # <<>>
        THEN LoopState(selPopLast(selected, prev), cur \o missingParentInfo, sec,
                       FALSE, selPoppedOf(selected, prev), <<>>)
        ELSE IF ~sectionHasUncoveredItems(section.items, Len(effectiveList))
        THEN IF sec < Len(sections)
             THEN LoopState(prev \o cur, <<>>, sec + 1, FALSE, <<>>, <<>>)
             ELSE LoopState(prev \o cur, <<>>, sec, TRUE, <<>>,
                            selComposeResult(naturalSlots, prev \o cur))
        ELSE LoopState(prev, cur, sec, TRUE, <<>>,
                       selComposeResult(naturalSlots, prev \o cur))

RECURSIVE selResolveFrom(_, _, _, _, _, _)
selResolveFrom(selected, naturalSlots, sections, sec, prev, cur) ==
    LET next == selResolveIteration(selected, naturalSlots, sections, sec, prev, cur)
    IN  IF next.done THEN next.result
        ELSE selResolveFrom(selected, naturalSlots, sections, next.sec,
                            next.prev, next.cur)

selResolveStickyHeaders(selected, pos, naturalSlots, sections) ==
    LET initial == getInitialSelectedStickyStack(selected, pos, naturalSlots)
    IN  IF sections = <<>> THEN selComposeResult(naturalSlots, initial)
        ELSE selResolveFrom(selected, naturalSlots, sections, 1, initial, <<>>)

\* InfiniteHierarchySelectionStrategy.getItemsAtPosition, from call to return
selGetItemsAtPosition(selected, pos, slots) ==
    IF Len(flatItems) = 0 THEN <<>>
    ELSE LET naturalSlots == generateNaturalSlots(pos, slots)
         IN  selResolveStickyHeaders(selected, pos, naturalSlots,
                                     groupItemsIntoSections(naturalSlots))

\* items.some(item => this.getOriginalId(item.id) === originalId)
isVisible(list, originalId) ==
    \E i \in 1..Len(list) : getOriginalId(list[i].id) = originalId

\* the while loop of findSafeScrollPosition: probes testPos, testPos - 1, ...
\* with the selection as it is during the call, at most limit times
RECURSIVE findSafeFrom(_, _, _, _, _, _)
findSafeFrom(originalId, selected, testPos, iterations, limit, slots) ==
    IF iterations >= limit THEN [found |-> FALSE, testPos |-> testPos]
    ELSE IF isVisible(selGetItemsAtPosition(selected, testPos, slots), originalId)
         THEN [found |-> TRUE, testPos |-> testPos]
         ELSE findSafeFrom(originalId, selected, testPos - 1, iterations + 1,
                           limit, slots)

\* the selection that stays when the finally block is left out
keepDeselected(selectedDuring, wasSelected, originalId) == selectedDuring

\* finally { if (wasSelected) this.selectedIds.add(originalId) }
restoreSelection(selectedDuring, wasSelected, originalId) ==
    IF wasSelected THEN selectedDuring \cup {originalId} ELSE selectedDuring

-----------------------------------------------------------------------------
(* InfiniteLoopStrategy *)

Item(id, data) == [id |-> id, data |-> data]

\* this.getItemId(item), the default (item) => item.id
getItemId(item) == item.id

\* findIndex answering the first index where it finds none
findIndexOrFirst(id) ==
    IF \E i \in 1..Len(items) : getItemId(items[i]) = id
    THEN Min({i \in 1..Len(items) : getItemId(items[i]) = id}) - 1
    ELSE 0

\* this.items.findIndex(item => this.getItemId(item) === id), 0-based or -1
findIndex(id) ==
    IF \E i \in 1..Len(items) : getItemId(items[i]) = id
    THEN Min({i \in 1..Len(items) : getItemId(items[i]) = id}) - 1
    ELSE -1

\* the slot as it would be with the negative remainder mirrored instead of
\* wrapped into [0, N)
loopSlotAtMirrored(pos, slot) ==
    LET absoluteIndex == pos + slot
        rem == JsRem(absoluteIndex, Len(items))
        itemIndex == IF rem < 0 THEN 0 - rem ELSE rem
        originalId == getItemId(items[itemIndex + 1])
    IN  PositionedItem(UniqueId(originalId, absoluteIndex), slot, absoluteIndex,
                       versionOf(originalId))

loopSlotAt(pos, slot) ==
    LET absoluteIndex == pos + slot
        rem == JsRem(absoluteIndex, Len(items))
        itemIndex == IF rem < 0 THEN rem + Len(items) ELSE rem
        originalId == getItemId(items[itemIndex + 1])
    IN  PositionedItem(UniqueId(originalId, absoluteIndex), slot, absoluteIndex,
                       versionOf(originalId))

\* InfiniteLoopStrategy.getItemsAtPosition
loopGetItemsAtPosition(pos, slots) ==
    IF Len(items) = 0 THEN <<>>
    ELSE [s \in 1..slots |-> loopSlotAt(pos, s - 1)]

\* the maps the constructor and setItems build: later items overwrite earlier
byIdOf(list) ==
    [id \in {getItemId(list[i]) : i \in 1..Len(list)} |->
        list[Max({i \in 1..Len(list) : getItemId(list[i]) = id})]]

zeroVersionsOf(list) == [id \in {getItemId(list[i]) : i \in 1..Len(list)} |-> 0]

\* m.set(k, v) on a map held as a function
mapSet(m, k, v) == [x \in (DOMAIN m) \cup {k} |-> IF x = k THEN v ELSE m[x]]

LoopIds == {<<"a">>, <<"b">>, <<"c">>}
\* the data updateItem(id, ...) is called with: new data under the same id, or
\* data that carries another id
IdRenamed == <<"z">>
UpdateData(id) == {Item(id, 1), Item(IdRenamed, 1)}
ItemArrays ==
    {<<Item(<<"a">>, 0), Item(<<"b">>, 0), Item(<<"c">>, 0)>>,
     <<Item(<<"a">>, 0), Item(<<"b">>, 0)>>,
     <<Item(<<"c">>, 1)>>,
     <<>>}

-----------------------------------------------------------------------------
(* diffSnapshots; t, opacities and interpolated offsets are in steps of 1/TSteps *)

\* an index that a PositionedItem or a cache entry does not have
NoIndex == -2000000

\* a + (b - a) * t for whole a and b: lerpFromEnd starts from b instead
lerpFromEnd(a, b, f) == (b * TSteps) + ((a - b) * f)

lerp(a, b, f) == (a * TSteps) + ((b - a) * f)

\* the keys of a Map filled from list, in insertion order
keysOf(list) ==
    LET RECURSIVE from(_, _)
        from(i, keys) ==
            IF i > Len(list) THEN keys
            ELSE IF \E k \in 1..Len(keys) : keys[k] = list[i].id
                 THEN from(i + 1, keys)
                 ELSE from(i + 1, Append(keys, list[i].id))
    IN  from(1, <<>>)

\* the Map filled from list: a later item overwrites an earlier one of its id
mapOf(list) ==
    [id \in {list[i].id : i \in 1..Len(list)} |->
        list[Max({i \in 1..Len(list) : list[i].id = id})]]

\* new Set([...floorMap.keys(), ...ceilMap.keys()]), in insertion order
allIdsOf(floorList, ceilList) == keysOf(floorList \o ceilList)

InterpolatedItem(id, offset, index, opacity, appears, disappears, moves, changed, sticky, version) ==
    [id |-> id, offset |-> offset, index |-> index, opacity |-> opacity,
     isAppearing |-> appears, isDisappearing |-> disappears,
     isMoving |-> moves, hasChanged |-> changed, isSticky |-> sticky,
     version |-> version]

\* the body of the loop over allIds
diffEntry(id, floorMap, ceilMap, f, prev) ==
    LET hasFloor == id \in DOMAIN floorMap
        hasCeil == id \in DOMAIN ceilMap
        hasPrev == id \in DOMAIN prev
        inFloor == floorMap[id]
        inCeil == ceilMap[id]
        prevState == prev[id]
        index == IF hasFloor THEN inFloor.index ELSE inCeil.index
    IN  IF hasFloor /\ hasCeil
        THEN InterpolatedItem(
                 id, lerp(inFloor.offset, inCeil.offset, f), index, TSteps,
                 ~hasPrev, FALSE,
                 IF hasPrev
                 THEN IF inFloor.index # NoIndex /\ prevState.index # NoIndex
                      THEN prevState.index # inFloor.index
                      ELSE prevState.offset # inFloor.offset * TSteps
                 ELSE FALSE,
                 IF hasPrev /\ prevState.version # Undefined
                            /\ inFloor.version # Undefined
                 THEN prevState.version # inFloor.version
                 ELSE FALSE,
                 inFloor.offset = inCeil.offset,
                 inFloor.version)
        ELSE IF hasFloor
        THEN InterpolatedItem(
                 id, lerp(inFloor.offset, inFloor.offset - 1, f), index, TSteps - f,
                 FALSE, TRUE, FALSE, FALSE, FALSE, inFloor.version)
        ELSE InterpolatedItem(
                 id, lerp(inCeil.offset + 1, inCeil.offset, f), index, f,
                 TRUE, FALSE, FALSE, FALSE, FALSE, inCeil.version)

diffSnapshots(floorList, ceilList, f, prev) ==
    LET allIds == allIdsOf(floorList, ceilList)
    IN  [i \in 1..Len(allIds) |->
            diffEntry(allIds[i], mapOf(floorList), mapOf(ceilList), f, prev)]

\* a cache entry of prevItems
PrevState(offset, index, version) ==
    [offset |-> offset, index |-> index, version |-> version]

-----------------------------------------------------------------------------
(* The strategies as state machines *)

\* a call of a public method: its name, the id passed and the flag passed
Call(name, id, flag) == [name |-> name, id |-> id, flag |-> flag]
NoCall == Call("none", <<>>, FALSE)

NoAnswer == [kind |-> "none"]

\* no TweenList is mounted
\* no scrollTo was called
NoScroll ==
    /\ scrollTop = 0
    /\ animationRafRef = 0
    /\ promises = <<>>

NoTween ==
    /\ tweenSlots = 0
    /\ scrollPosition = 0
    /\ itemsAtFloor = <<>>
    /\ itemsAtCeil = <<>>
    /\ t = 0
    /\ prevItems = <<>>
    /\ interpolatedItems = <<>>
    /\ sinceFrame = {}
    /\ NoScroll

NoQuery ==
    /\ lastCall = NoCall
    /\ answer = NoAnswer
    /\ notified = <<>>
    /\ phase = "idle"
    /\ position = 0
    /\ viewportSlots = 0
    /\ sectionIdx = 0
    /\ previousStickyStack = <<>>
    /\ currentSectionStickyStack = <<>>
    /\ evicted = <<>>
    /\ result = <<>>
    /\ thrown = "none"

\* new InfiniteHierarchyStrategy(tree) / new InfiniteHierarchySelectionStrategy(tree)
ConstructHierarchyFrom(k, trees) ==
    /\ kind = k
    /\ \E tree \in trees : flatItems = flattenItems(tree, 0, <<>>)
    /\ itemVersions = [id \in FlatIds |-> 0]
    /\ items = <<>>
    /\ itemsById = <<>>
    /\ selectedIds = {}
    /\ onSelectionChangeCallback = FALSE
    /\ NoQuery
    /\ NoTween

ConstructHierarchy(k) == ConstructHierarchyFrom(k, Trees)

\* new InfiniteLoopStrategy(items)
ConstructLoopFrom(lists) ==
    /\ kind = "loop"
    /\ \E list \in lists : items = list
    /\ itemsById = byIdOf(items)
    /\ itemVersions = zeroVersionsOf(items)
    /\ flatItems = <<>>
    /\ selectedIds = {}
    /\ onSelectionChangeCallback = FALSE
    /\ NoQuery
    /\ NoTween

ConstructLoop == ConstructLoopFrom(ItemArrays)

\* calls are synchronous: the next one starts when no call is in progress and
\* the caller has taken the list the last one returned
Callable == phase = "idle"

\* a method that returns no list has returned
Answer ==
    /\ phase' = "answered"
    /\ UNCHANGED <<position, viewportSlots, sectionIdx, previousStickyStack,
                   currentSectionStickyStack, evicted, result>>

\* the caller is done with what the last call returned
Discard ==
    /\ phase \in {"returned", "answered"}
    /\ phase' = "idle"
    /\ position' = 0
    /\ viewportSlots' = 0
    /\ result' = <<>>
    /\ thrown' = "none"
    /\ lastCall' = NoCall
    /\ answer' = NoAnswer
    /\ notified' = <<>>
    /\ UNCHANGED <<kind, flatItems, items, itemsById, itemVersions, selectedIds,
                   sectionIdx, previousStickyStack, currentSectionStickyStack,
                   evicted, onSelectionChangeCallback, tweenVars>>

Return(list) ==
    /\ phase' = "returned"
    /\ result' = list
    /\ sectionIdx' = 0
    /\ previousStickyStack' = <<>>
    /\ currentSectionStickyStack' = <<>>
    /\ evicted' = <<>>

Enter(prev) ==
    /\ phase' = "resolving"
    /\ result' = <<>>
    /\ sectionIdx' = 1
    /\ previousStickyStack' = prev
    /\ currentSectionStickyStack' = <<>>
    /\ evicted' = <<>>

Advance(next) ==
    IF next.done THEN Return(next.result)
    ELSE /\ phase' = "resolving"
         /\ result' = <<>>
         /\ sectionIdx' = next.sec
         /\ previousStickyStack' = next.prev
         /\ currentSectionStickyStack' = next.cur
         /\ evicted' = next.evicted

\* InfiniteHierarchyStrategy.getItemsAtPosition up to the first pass of the
\* convergence loop
GetItemsAtPosition(pos, slots) ==
    /\ kind = "hierarchy"
    /\ Callable
    /\ position' = pos
    /\ viewportSlots' = slots
    /\ thrown' = "none"
    /\ IF Len(flatItems) = 0 THEN Return(<<>>)
       ELSE LET naturalSlots == generateNaturalSlots(pos, slots)
            IN  IF groupItemsIntoSections(naturalSlots) = <<>>
                THEN Return(composeResult(naturalSlots, <<>>))
                ELSE Enter(<<>>)
    /\ lastCall' = Call("getItemsAtPosition", <<>>, FALSE)
    /\ answer' = NoAnswer
    /\ notified' = <<>>
    /\ UNCHANGED <<kind, flatItems, items, itemsById, itemVersions, selectedIds,
                   onSelectionChangeCallback, tweenVars>>

\* one pass of the convergence loop of InfiniteHierarchyStrategy
ResolveIteration ==
    /\ kind = "hierarchy"
    /\ phase = "resolving"
    /\ LET naturalSlots == generateNaturalSlots(position, viewportSlots)
       IN  Advance(resolveIteration(naturalSlots, groupItemsIntoSections(naturalSlots),
                                    sectionIdx, previousStickyStack,
                                    currentSectionStickyStack))
    /\ UNCHANGED <<kind, flatItems, items, itemsById, itemVersions, selectedIds,
                   position, viewportSlots, thrown, lastCall, answer, notified,
                   onSelectionChangeCallback, tweenVars>>

InitHierarchy == ConstructHierarchy("hierarchy")

NextHierarchy ==
    \/ \E pos \in Positions, slots \in Viewports : GetItemsAtPosition(pos, slots)
    \/ ResolveIteration
    \/ Discard

SpecHierarchy == InitHierarchy /\ [][NextHierarchy]_vars

\* InfiniteHierarchySelectionStrategy.getItemsAtPosition up to the first pass
\* of the convergence loop
SelGetItemsAtPosition(pos, slots) ==
    /\ kind = "selection"
    /\ Callable
    /\ position' = pos
    /\ viewportSlots' = slots
    /\ thrown' = "none"
    /\ IF Len(flatItems) = 0 THEN Return(<<>>)
       ELSE LET naturalSlots == generateNaturalSlots(pos, slots)
                initial == getInitialSelectedStickyStack(selectedIds, pos, naturalSlots)
            IN  IF groupItemsIntoSections(naturalSlots) = <<>>
                THEN Return(selComposeResult(naturalSlots, initial))
                ELSE Enter(initial)
    /\ lastCall' = Call("getItemsAtPosition", <<>>, FALSE)
    /\ answer' = NoAnswer
    /\ notified' = <<>>
    /\ UNCHANGED <<kind, flatItems, items, itemsById, itemVersions, selectedIds,
                   onSelectionChangeCallback, tweenVars>>

\* one pass of the convergence loop of InfiniteHierarchySelectionStrategy
SelResolveIteration ==
    /\ kind = "selection"
    /\ phase = "resolving"
    /\ LET naturalSlots == generateNaturalSlots(position, viewportSlots)
       IN  Advance(selResolveIteration(selectedIds, naturalSlots,
                                       groupItemsIntoSections(naturalSlots),
                                       sectionIdx, previousStickyStack,
                                       currentSectionStickyStack))
    /\ UNCHANGED <<kind, flatItems, items, itemsById, itemVersions, selectedIds,
                   position, viewportSlots, thrown, lastCall, answer, notified,
                   onSelectionChangeCallback, tweenVars>>

\* a notification that passes the selection as it was before the call
notifyBeforeUpdate(selected) ==
    IF onSelectionChangeCallback THEN <<selectedIds>> ELSE <<>>

\* notifySelectionChange: the sets passed to the callback, one per invocation
notifySelectionChange(selected) ==
    IF onSelectionChangeCallback THEN <<selected>> ELSE <<>>

\* a method that leaves selectedIds as selected and then notifies
SetSelection(name, id, selected) ==
    /\ kind = "selection"
    /\ Callable
    /\ Cardinality(selected) <= MaxSelected
    /\ selectedIds' = selected
    /\ notified' = notifySelectionChange(selected)
    /\ lastCall' = Call(name, id, FALSE)
    /\ answer' = NoAnswer
    /\ Answer
    /\ UNCHANGED <<kind, flatItems, items, itemsById, itemVersions, thrown,
                   onSelectionChangeCallback, tweenVars>>

SelectableIds == FlatIds \cup {IdUnknown}

select(id) == SetSelection("select", id, selectedIds \cup {id})

deselect(id) == SetSelection("deselect", id, selectedIds \ {id})

toggleSelection(id) ==
    IF id \in selectedIds
    THEN SetSelection("toggleSelection", id, selectedIds \ {id})
    ELSE SetSelection("toggleSelection", id, selectedIds \cup {id})

\* setOnSelectionChange(callback)
setOnSelectionChange ==
    /\ kind = "selection"
    /\ Callable
    /\ onSelectionChangeCallback' = TRUE
    /\ notified' = <<>>
    /\ lastCall' = Call("setOnSelectionChange", <<>>, FALSE)
    /\ answer' = NoAnswer
    /\ Answer
    /\ UNCHANGED <<kind, flatItems, items, itemsById, itemVersions, selectedIds,
                   thrown, tweenVars>>

\* positions are fractional in steps of 1/TSteps: the number p stands for p/TSteps
Whole(n) == n * TSteps
floor(p) == FloorDiv(p, TSteps)

PositionAnswer(p) == [kind |-> "position", value |-> p]

\* InfiniteHierarchySelectionStrategy.findSafeScrollPosition, from call to return
findSafeScrollPosition(id, currentPosition, slots) ==
    /\ kind = "selection"
    /\ Callable
    /\ LET originalId == getOriginalId(id)
           wasSelected == originalId \in selectedIds
           selectedDuring == selectedIds \ {originalId}
       IN  IF originalId \notin FlatIds
           THEN /\ answer' = PositionAnswer(currentPosition)
                /\ UNCHANGED selectedIds
           ELSE /\ \E found \in {findSafeFrom(originalId, selectedDuring,
                                               floor(currentPosition), 0,
                                               Len(flatItems) * 2, slots)} :
                      answer' = IF found.found
                                THEN PositionAnswer(Whole(found.testPos))
                                ELSE PositionAnswer(currentPosition)
                /\ selectedIds' = restoreSelection(selectedDuring, wasSelected,
                                                   originalId)
    /\ lastCall' = [name |-> "findSafeScrollPosition", id |-> id, flag |-> FALSE,
                    currentPosition |-> currentPosition, viewportSlots |-> slots]
    /\ notified' = <<>>
    /\ Answer
    /\ UNCHANGED <<kind, flatItems, items, itemsById, itemVersions, thrown,
                   onSelectionChangeCallback, tweenVars>>

InitSelection == ConstructHierarchy("selection")

NextSelection ==
    \/ \E pos \in Positions, slots \in Viewports : SelGetItemsAtPosition(pos, slots)
    \/ SelResolveIteration
    \/ \E id \in SelectableIds : select(id)
    \/ \E id \in SelectableIds : deselect(id)
    \/ \E id \in SelectableIds : toggleSelection(id)
    \/ setOnSelectionChange
    \/ Discard

SpecSelection == InitSelection /\ [][NextSelection]_vars

\* the arguments findSafeScrollPosition is called with
SafePositions == {Whole(p) : p \in 0..MaxSafePos} \cup {Whole(MaxSafePos) + 1}
SafeViewports == 1..MaxSafeSlots

NextSafeScroll ==
    \/ \E id \in SelectableIds : toggleSelection(id)
    \/ setOnSelectionChange
    \/ \E id \in SelectableIds, p \in SafePositions, slots \in SafeViewports :
          findSafeScrollPosition(id, p, slots)
    \/ Discard

\* the trees findSafeScrollPosition is called on
SafeTrees == {TreeTest, TreePairs, TreeEmpty}

InitSafeScroll == ConstructHierarchyFrom("selection", SafeTrees)

SpecSafeScroll == InitSafeScroll /\ [][NextSafeScroll]_vars

\* InfiniteLoopStrategy.getItemsAtPosition
LoopGetItemsAtPosition(pos, slots) ==
    /\ kind = "loop"
    /\ Callable
    /\ position' = pos
    /\ viewportSlots' = slots
    /\ thrown' = "none"
    /\ Return(loopGetItemsAtPosition(pos, slots))
    /\ lastCall' = Call("getItemsAtPosition", <<>>, FALSE)
    /\ answer' = NoAnswer
    /\ notified' = <<>>
    /\ UNCHANGED <<kind, flatItems, items, itemsById, itemVersions, selectedIds,
                   onSelectionChangeCallback, tweenVars>>

\* an InfiniteLoopStrategy on its own, or one rendered by a TweenList
LoopKinds == {"loop", "tween"}

\* a call that changed versions is noted until the component renders again
noted(call) == IF kind = "tween" THEN sinceFrame \cup {call} ELSE sinceFrame

\* InfiniteLoopStrategy.updateItem
updateItem(id, data, incrementVersion) ==
    /\ kind \in LoopKinds
    /\ Callable
    /\ incrementVersion => versionOf(id) < MaxVersion
    /\ IF findIndex(id) = -1
       THEN /\ thrown' = "NotFound"
            /\ UNCHANGED <<items, itemsById, itemVersions, sinceFrame>>
       ELSE /\ thrown' = "none"
            /\ sinceFrame' = IF incrementVersion
                             THEN noted(Call("updateItem", id, TRUE))
                             ELSE sinceFrame
            /\ items' = [items EXCEPT ![findIndex(id) + 1] = data]
            /\ itemsById' = mapSet(itemsById, id, data)
            /\ itemVersions' =
                   IF incrementVersion
                   THEN mapSet(itemVersions, id,
                               (IF versionOf(id) = Undefined THEN 0
                                ELSE versionOf(id)) + 1)
                   ELSE itemVersions
    /\ lastCall' = Call("updateItem", id, incrementVersion)
    /\ answer' = NoAnswer
    /\ notified' = <<>>
    /\ Answer
    /\ UNCHANGED <<kind, flatItems, selectedIds, onSelectionChangeCallback,
                   frameVars, scrollVars>>

\* InfiniteLoopStrategy.setItems
setItems(list) ==
    /\ kind \in LoopKinds
    /\ Callable
    /\ items' = list
    /\ itemsById' = byIdOf(list)
    /\ itemVersions' = zeroVersionsOf(list)
    /\ thrown' = "none"
    /\ lastCall' = Call("setItems", <<>>, FALSE)
    /\ sinceFrame' = noted(Call("setItems", <<>>, FALSE))
    /\ answer' = NoAnswer
    /\ notified' = <<>>
    /\ Answer
    /\ UNCHANGED <<kind, flatItems, selectedIds, onSelectionChangeCallback,
                   frameVars, scrollVars>>

InitLoop == ConstructLoop

NextLoop ==
    \/ \E pos \in Positions, slots \in Viewports : LoopGetItemsAtPosition(pos, slots)
    \/ \E id \in LoopIds, inc \in BOOLEAN :
          \E data \in UpdateData(id) : updateItem(id, data, inc)
    \/ \E list \in ItemArrays : setItems(list)
    \/ Discard

SpecLoop == InitLoop /\ [][NextLoop]_vars

-----------------------------------------------------------------------------
(* getItemData of the three strategies *)

DataAnswer(data) == [kind |-> "data", value |-> data]
NotFound == [kind |-> "throw", value |-> "NotFound"]

\* InfiniteLoopStrategy.getItemData without the lookup by the full id
loopGetItemDataByOriginalId(id) ==
    LET originalId == getOriginalId(id)
    IN  IF originalId \in DOMAIN itemsById THEN DataAnswer(itemsById[originalId])
        ELSE NotFound

\* InfiniteLoopStrategy.getItemData
loopGetItemData(id) ==
    LET originalId == getOriginalId(id)
    IN  IF originalId \in DOMAIN itemsById THEN DataAnswer(itemsById[originalId])
        ELSE IF id \in DOMAIN itemsById THEN DataAnswer(itemsById[id])
        ELSE NotFound

\* flatItem.data.children && flatItem.data.children.length > 0
hasChildren(flatItem) ==
    \E j \in 1..Len(flatItems) :
        /\ Len(flatItems[j].parents) > 0
        /\ flatItems[j].parents[Len(flatItems[j].parents)] = flatItem.id

\* parentId when flatItem.parents is empty
UndefinedId == <<>>

\* { ...flatItem.data, depth, hasChildren, parentId }
hierarchyData(flatItem) ==
    [id |-> flatItem.id,
     depth |-> flatItem.depth,
     hasChildren |-> hasChildren(flatItem),
     parentId |-> IF Len(flatItem.parents) > 0
                  THEN flatItem.parents[Len(flatItem.parents)] ELSE UndefinedId]

\* InfiniteHierarchyStrategy.getItemData
hierarchyGetItemData(id) ==
    LET originalId == getOriginalId(id)
    IN  IF ~HasFlatItem(originalId) THEN NotFound
        ELSE DataAnswer(hierarchyData(flatItemById(originalId)))

\* InfiniteHierarchySelectionStrategy.getItemData
selGetItemData(id) ==
    LET originalId == getOriginalId(id)
    IN  IF ~HasFlatItem(originalId) THEN NotFound
        ELSE DataAnswer([field \in {"id", "depth", "hasChildren", "parentId",
                                    "isSelected"} |->
                            IF field = "isSelected" THEN originalId \in selectedIds
                            ELSE hierarchyData(flatItemById(originalId))[field]])

\* getItemData(id) of the strategy constructed
getItemData(id) ==
    /\ Callable
    /\ \E returned \in {CASE kind = "loop" -> loopGetItemData(id)
                          [] kind = "hierarchy" -> hierarchyGetItemData(id)
                          [] kind = "selection" -> selGetItemData(id)} :
          /\ answer' = returned
          /\ thrown' = IF returned = NotFound THEN "NotFound" ELSE "none"
    /\ lastCall' = Call("getItemData", id, FALSE)
    /\ notified' = <<>>
    /\ Answer
    /\ UNCHANGED <<kind, flatItems, items, itemsById, itemVersions, selectedIds,
                   onSelectionChangeCallback, tweenVars>>

\* sources with ids that contain the separator: the tree v__1(w), where no
\* item has the id v, and the array a, a__1, b__2
IdComposite == <<"v", "_", "_", "1">>
TreeComposite == <<Node(IdComposite, <<Leaf(<<"w">>)>>)>>
DataTrees == {TreeTest, TreeComposite, TreeEmpty}
DataArrays ==
    {<<Item(<<"a">>, 0), Item(<<"a", "_", "_", "1">>, 1),
       Item(<<"b", "_", "_", "2">>, 2)>>,
     <<Item(<<"a">>, 0), Item(<<"b">>, 0)>>,
     <<>>}

SourceIds == IF kind = "loop" THEN DOMAIN itemsById ELSE FlatIds

\* the ids getItemData is called with: source ids and unknown ids, on their
\* own and as composite ids
DataIds ==
    LET originals == SourceIds \cup {IdUnknown, <<"v">>, <<"b">>}
    IN  originals \cup {UniqueId(o, idx) : o \in originals, idx \in {-1, 0, 1, 2}}

InitItemData ==
    \/ ConstructLoopFrom(DataArrays)
    \/ ConstructHierarchyFrom("hierarchy", DataTrees)
    \/ ConstructHierarchyFrom("selection", DataTrees)

NextItemData ==
    \/ \E id \in DataIds : getItemData(id)
    \/ \E id \in SelectableIds : toggleSelection(id)
    \/ Discard

SpecItemData == InitItemData /\ [][NextItemData]_vars

-----------------------------------------------------------------------------
(* diffSnapshots as a function of its arguments *)

DiffIds == {<<"x">>, <<"y">>}
DiffOffsets == {0, 1}

\* snapshot items with and without index and version
DiffItems(id) ==
    {PositionedItem(id, offset, index, version) :
        offset \in DiffOffsets, index \in {0, NoIndex}, version \in {0, Undefined}}

\* snapshots of x, of y, of both and of neither
DiffLists ==
    {<<>>} \cup {<<a>> : a \in DiffItems(<<"x">>) \cup DiffItems(<<"y">>)}
           \cup {<<a, b>> : a \in DiffItems(<<"x">>), b \in DiffItems(<<"y">>)}

\* caches: empty, x as a snapshot has it, x and y with other offsets, indices
\* and versions
DiffPrevs ==
    {<<>>,
     [id \in {<<"x">>} |-> PrevState(0, 0, 0)],
     [id \in DiffIds |-> IF id = <<"x">> THEN PrevState(1, 1, 1)
                         ELSE PrevState(TSteps, NoIndex, Undefined)]}

InitDiff ==
    /\ kind = "diff"
    /\ flatItems = <<>>
    /\ items = <<>>
    /\ itemsById = <<>>
    /\ itemVersions = <<>>
    /\ selectedIds = {}
    /\ onSelectionChangeCallback = FALSE
    /\ NoQuery
    /\ tweenSlots = 0
    /\ scrollPosition = 0
    /\ itemsAtFloor \in DiffLists
    /\ itemsAtCeil \in DiffLists
    /\ t \in 0..TSteps
    /\ prevItems \in DiffPrevs
    /\ interpolatedItems = <<>>
    /\ sinceFrame = {}
    /\ NoScroll

\* diffSnapshots(itemsAtFloor, itemsAtCeil, t, prevItems)
DiffSnapshots ==
    /\ kind = "diff"
    /\ Callable
    /\ interpolatedItems' = diffSnapshots(itemsAtFloor, itemsAtCeil, t, prevItems)
    /\ lastCall' = Call("diffSnapshots", <<>>, FALSE)
    /\ Answer
    /\ UNCHANGED <<kind, flatItems, items, itemsById, itemVersions, selectedIds,
                   thrown, answer, notified, onSelectionChangeCallback,
                   tweenSlots, scrollPosition, itemsAtFloor, itemsAtCeil, t,
                   prevItems, sinceFrame, scrollVars>>

NextDiff == DiffSnapshots

SpecDiff == InitDiff /\ [][NextDiff]_vars

-----------------------------------------------------------------------------
(* TweenList rendering an InfiniteLoopStrategy *)

\* the cache without the versions
cacheWithoutVersion(list) ==
    [id \in {list[i].id : i \in 1..Len(list)} |->
        PrevState(mapOf(list)[id].offset, mapOf(list)[id].index, Undefined)]

\* newPrevItems: every interpolated item's offset, index and version by id
cacheOf(list) ==
    [id \in {list[i].id : i \in 1..Len(list)} |->
        PrevState(mapOf(list)[id].offset, mapOf(list)[id].index,
                  mapOf(list)[id].version)]

\* a render at scroll position pos with the snapshots given, and the effect
\* that runs after it
Render(pos, floorList, ceilList) ==
    /\ scrollPosition' = pos
    /\ itemsAtFloor' = floorList
    /\ itemsAtCeil' = ceilList
    /\ t' = pos - Whole(floor(pos))
    /\ \E diff \in {diffSnapshots(floorList, ceilList, pos - Whole(floor(pos)),
                                   prevItems)} :
          /\ interpolatedItems' = diff
          /\ prevItems' = cacheOf(diff)

\* the strategy is asked for the snapshots at floor and floor + 1
ReadSnapshots(pos) ==
    /\ Render(pos, loopGetItemsAtPosition(floor(pos), tweenSlots),
                   loopGetItemsAtPosition(floor(pos) + 1, tweenSlots))
    /\ sinceFrame' = {}

\* the scroll handler sets a new scroll position: the snapshots are read
\* again when floor changed and are the memoized ones when it did not
Scroll(pos) ==
    /\ kind = "tween"
    /\ Callable
    /\ pos # scrollPosition
    /\ IF floor(pos) # floor(scrollPosition) THEN ReadSnapshots(pos)
       ELSE /\ Render(pos, itemsAtFloor, itemsAtCeil)
            /\ UNCHANGED sinceFrame
    /\ UNCHANGED <<kind, flatItems, items, itemsById, itemVersions, selectedIds,
                   phase, position, viewportSlots, sectionIdx, previousStickyStack,
                   currentSectionStickyStack, evicted, result, thrown, lastCall,
                   answer, onSelectionChangeCallback, notified, tweenSlots,
                   scrollVars>>

\* the parent renders the component with a new signal: the snapshots are read
\* again at the scroll position as it is
Signal ==
    /\ kind = "tween"
    /\ Callable
    /\ ReadSnapshots(scrollPosition)
    /\ UNCHANGED <<kind, flatItems, items, itemsById, itemVersions, selectedIds,
                   phase, position, viewportSlots, sectionIdx, previousStickyStack,
                   currentSectionStickyStack, evicted, result, thrown, lastCall,
                   answer, onSelectionChangeCallback, notified, tweenSlots,
                   scrollVars>>

FrameItem(id) == Item(id, 0)
FrameArrays ==
    {<<FrameItem(<<"a">>), FrameItem(<<"b">>), FrameItem(<<"c">>)>>,
     <<FrameItem(<<"a">>), FrameItem(<<"x">>), FrameItem(<<"b">>),
       FrameItem(<<"c">>)>>}
FrameViewports == {3}
\* whole scroll positions and the positions one step after them
FramePositions ==
    {Whole(p) : p \in 0..MaxScroll} \cup {Whole(p) + 1 : p \in 0..(MaxScroll - 1)}
FrameUpdateIds == {<<"a">>, <<"b">>}

\* the component after its first render: the cache was empty
InitFrames ==
    /\ kind = "tween"
    /\ \E list \in FrameArrays : items = list
    /\ itemsById = byIdOf(items)
    /\ itemVersions = zeroVersionsOf(items)
    /\ flatItems = <<>>
    /\ selectedIds = {}
    /\ onSelectionChangeCallback = FALSE
    /\ NoQuery
    /\ tweenSlots \in FrameViewports
    /\ scrollPosition \in {Whole(0), Whole(1)}
    /\ itemsAtFloor = loopGetItemsAtPosition(floor(scrollPosition), tweenSlots)
    /\ itemsAtCeil = loopGetItemsAtPosition(floor(scrollPosition) + 1, tweenSlots)
    /\ t = 0
    /\ interpolatedItems = diffSnapshots(itemsAtFloor, itemsAtCeil, 0, <<>>)
    /\ prevItems = cacheOf(interpolatedItems)
    /\ sinceFrame = {}
    /\ NoScroll

NextFrames ==
    \/ \E pos \in FramePositions : Scroll(pos)
    \/ Signal
    \/ \E id \in FrameUpdateIds, inc \in BOOLEAN : updateItem(id, FrameItem(id), inc)
    \/ \E list \in FrameArrays : setItems(list)
    \/ Discard

SpecFrames == InitFrames /\ [][NextFrames]_vars

-----------------------------------------------------------------------------
(* A tree whose parent id ends with an underscore *)

IdTrailing == <<"q", "_">>

TreeTrailing == <<Node(IdTrailing, <<Leaf(<<"c">>), Leaf(<<"d">>)>>)>>

InitTrailing ==
    \/ ConstructHierarchyFrom("hierarchy", {TreeTrailing})
    \/ ConstructHierarchyFrom("selection", {TreeTrailing})

\* queries of either strategy, with nothing selected or with the second child
\* selected: the sticky stack then holds two entries at most, so that the sort
\* of a stack with an index that is NaN does not depend on the engine
NextTrailing ==
    \/ \E pos \in Positions, slots \in Viewports : GetItemsAtPosition(pos, slots)
    \/ ResolveIteration
    \/ \E pos \in Positions, slots \in Viewports : SelGetItemsAtPosition(pos, slots)
    \/ SelResolveIteration
    \/ select(<<"d">>)
    \/ Discard

SpecTrailing == InitTrailing /\ [][NextTrailing]_vars

-----------------------------------------------------------------------------
(* Composite ids: made by getItemsAtPosition, read back by the resolver *)

IdsAnswer(uniqueId) ==
    [kind |-> "ids",
     uniqueId |-> uniqueId,
     originalId |-> getOriginalId(uniqueId),
     absoluteIndex |-> getAbsoluteIndexFromUniqueId(uniqueId)]

\* original ids: plain ones, ones with single underscores at the start, inside
\* and at the end, digits and signs, the empty string, and one that contains
\* the separator
OriginalIds ==
    {<<"q">>, <<"q", "_">>, <<"_", "q">>, <<"a", "_", "b">>,
     <<"a", "_", "b", "_">>, <<"_">>, <<>>, <<"7">>, <<"q", "7">>,
     <<"7", "_">>, <<"-", "1">>, <<"a", "-", "1">>, <<"a", "_", "_", "b">>}

AbsoluteIndices == (0 - MaxIdx)..MaxIdx

\* `${flatItem.id}__${absoluteIndex}` read back with getOriginalId and
\* getAbsoluteIndexFromUniqueId
ReadBackUniqueId(id, absoluteIndex) ==
    /\ kind = "ids"
    /\ Callable
    /\ lastCall' = [name |-> "readBackUniqueId", id |-> id, flag |-> FALSE,
                    absoluteIndex |-> absoluteIndex]
    /\ answer' = IdsAnswer(UniqueId(id, absoluteIndex))
    /\ Answer
    /\ UNCHANGED <<kind, flatItems, items, itemsById, itemVersions, selectedIds,
                   thrown, notified, onSelectionChangeCallback, tweenVars>>

InitIds ==
    /\ kind = "ids"
    /\ flatItems = <<>>
    /\ items = <<>>
    /\ itemsById = <<>>
    /\ itemVersions = <<>>
    /\ selectedIds = {}
    /\ onSelectionChangeCallback = FALSE
    /\ NoQuery
    /\ NoTween

NextIds ==
    \/ \E id \in OriginalIds, absoluteIndex \in AbsoluteIndices :
          ReadBackUniqueId(id, absoluteIndex)
    \/ Discard

SpecIds == InitIds /\ [][NextIds]_vars

-----------------------------------------------------------------------------
(* TweenList: the imperative scrollTo handle *)

\* the slotHeight prop, in pixels
SlotHeight == 16

\* easeInOutCubic(elapsed / MaxFrames) as a fraction:
\* t < 0.5 ? 4 * t * t * t : 1 - Math.pow(-2 * t + 2, 3) / 2
EasedDenominator == 2 * MaxFrames * MaxFrames * MaxFrames
EasedNumerator(elapsed) ==
    IF 2 * elapsed < MaxFrames THEN 8 * elapsed * elapsed * elapsed
    ELSE LET rest == (2 * MaxFrames) - (2 * elapsed)
         IN  EasedDenominator - (rest * rest * rest)

\* what one scrollTo call holds: its arguments, the closure of animate and the
\* state of the promise it returned. elapsed is the time since startTime that
\* the last frame saw, in units of duration / MaxFrames.
ScrollCall(target, behavior, startScrollTop, state) ==
    [position |-> target, behavior |-> behavior,
     startScrollTop |-> startScrollTop, elapsed |-> 0, state |-> state]

\* setScrollPosition(pos) and the render it causes; the same position causes none
setScrollPosition(pos) ==
    IF pos = scrollPosition THEN UNCHANGED <<frameVars, sinceFrame>>
    ELSE IF floor(pos) # floor(scrollPosition)
         THEN ReadSnapshots(pos) /\ UNCHANGED tweenSlots
         ELSE /\ Render(pos, itemsAtFloor, itemsAtCeil)
              /\ UNCHANGED <<sinceFrame, tweenSlots>>

\* a scrollTo that resolves without waiting for a frame
resolveAtOnce(call) == Append(promises, [call EXCEPT !.state = "resolved"])

\* scrollTo(position, behavior) of a mounted component, up to the return of the
\* promise: an animation that is requested is cancelled, then 'smooth' requests
\* the first frame of animate and 'auto' moves, sets the state and resolves
scrollTo(target, behavior) ==
    /\ kind = "scroll"
    /\ Len(promises) < MaxCalls
    /\ IF behavior = "smooth"
       THEN /\ promises' = Append(promises,
                   ScrollCall(target, behavior, scrollTop, "pending"))
            /\ animationRafRef' = Len(promises) + 1
            /\ UNCHANGED <<scrollTop, frameVars, sinceFrame>>
       ELSE /\ scrollTop' = target * SlotHeight
            /\ setScrollPosition(Whole(target))
            /\ promises' = resolveAtOnce(
                   ScrollCall(target, behavior, scrollTop, "pending"))
            /\ animationRafRef' = 0
    /\ UNCHANGED <<kind, flatItems, items, itemsById, itemVersions, selectedIds,
                   phase, position, viewportSlots, sectionIdx, previousStickyStack,
                   currentSectionStickyStack, evicted, result, thrown, lastCall,
                   answer, onSelectionChangeCallback, notified>>

\* the browser delivers the requested animation frame: animate(currentTime) of
\* the call that requested it, with some later time than the frame before
animate ==
    /\ kind = "scroll"
    /\ animationRafRef # 0
    /\ LET call == promises[animationRafRef]
           distance == (call.position * SlotHeight) - call.startScrollTop
       IN  \E elapsed \in (call.elapsed + 1)..MaxFrames :
              /\ scrollTop' = call.startScrollTop +
                     ((distance * EasedNumerator(elapsed)) \div EasedDenominator)
              /\ IF elapsed < MaxFrames
                 THEN /\ promises' = [promises EXCEPT
                                         ![animationRafRef].elapsed = elapsed]
                      /\ UNCHANGED animationRafRef
                 ELSE /\ promises' = [promises EXCEPT
                                         ![animationRafRef].elapsed = elapsed,
                                         ![animationRafRef].state = "resolved"]
                      /\ animationRafRef' = 0
    /\ UNCHANGED <<kind, flatItems, items, itemsById, itemVersions, selectedIds,
                   phase, position, viewportSlots, sectionIdx, previousStickyStack,
                   currentSectionStickyStack, evicted, result, thrown, lastCall,
                   answer, onSelectionChangeCallback, notified, frameVars,
                   sinceFrame>>

ScrollPositions == 0..MaxScroll
ScrollBehaviors == {"auto", "smooth"}
ScrollArray == <<FrameItem(<<"a">>), FrameItem(<<"b">>), FrameItem(<<"c">>)>>

\* the mounted component after its first render, no scrollTo called yet
InitScroll ==
    /\ kind = "scroll"
    /\ items = ScrollArray
    /\ itemsById = byIdOf(items)
    /\ itemVersions = zeroVersionsOf(items)
    /\ flatItems = <<>>
    /\ selectedIds = {}
    /\ onSelectionChangeCallback = FALSE
    /\ NoQuery
    /\ tweenSlots = 3
    /\ scrollPosition = Whole(0)
    /\ itemsAtFloor = loopGetItemsAtPosition(0, tweenSlots)
    /\ itemsAtCeil = loopGetItemsAtPosition(1, tweenSlots)
    /\ t = 0
    /\ interpolatedItems = diffSnapshots(itemsAtFloor, itemsAtCeil, 0, <<>>)
    /\ prevItems = cacheOf(interpolatedItems)
    /\ sinceFrame = {}
    /\ NoScroll

NextScroll ==
    \/ \E target \in ScrollPositions, behavior \in ScrollBehaviors :
          scrollTo(target, behavior)
    \/ animate

\* animation frames keep being delivered
SpecScroll == InitScroll /\ [][NextScroll]_vars /\ WF_vars(animate)

-----------------------------------------------------------------------------
(* Both hierarchy strategies *)

InitConverge == ConstructHierarchy("hierarchy") \/ ConstructHierarchy("selection")

NextConverge == NextHierarchy \/ NextSelection

SpecConverge == InitConverge /\ [][NextConverge]_vars

-----------------------------------------------------------------------------
(* Vocabulary of the properties *)

FlatLength == Len(flatItems)

MaxDepth == Max({0} \cup {flatItems[i].depth : i \in 1..Len(flatItems)})

Returned == phase = "returned"

\* offsets 0, 1, ..., n-1 in order, one item per offset
OffsetsInOrder(list, n) ==
    /\ Len(list) = n
    /\ \A i \in 1..Len(list) : list[i].offset = i - 1

IdsOf(list) == [i \in 1..Len(list) |-> list[i].id]

parentsOf(uniqueId) == flatItemById(getOriginalId(uniqueId)).parents

\* every ancestor of list[i] derives some item above list[i]
AncestorsAbove(list, i) ==
    \A n \in 1..Len(parentsOf(list[i].id)) :
        \E j \in 1..(i - 1) : getOriginalId(list[j].id) = parentsOf(list[i].id)[n]

\* the first slot holds a sticky header: an occurrence from above the viewport
StickyOnTop == Len(result) >= 1 /\ result[1].index < position

-----------------------------------------------------------------------------
(* Properties of InfiniteHierarchyStrategy *)

\* C1: for a non-empty tree, every position (negative included) and every
\* viewportSlots k >= 0, getItemsAtPosition returns exactly k items whose
\* offsets are 0, 1, ..., k-1 in that order.
C1_ExactlyViewportSlots ==
    (kind = "hierarchy" /\ Returned /\ FlatLength > 0)
        => OffsetsInOrder(result, viewportSlots)

C1_Witness ==
    /\ kind = "hierarchy" /\ Returned /\ FlatLength > 0
    /\ position < 0 /\ viewportSlots = 2
    /\ StickyOnTop
    /\ OffsetsInOrder(result, 2)

\* C2: when the hierarchy depth fits in the viewport (viewportSlots > max
\* depth), every ancestor id of every returned item is the original id of some
\* returned item at a strictly smaller offset.
C2_AncestorsVisible ==
    (kind = "hierarchy" /\ Returned /\ FlatLength > 0 /\ viewportSlots > MaxDepth)
        => \A i \in 1..Len(result) : AncestorsAbove(result, i)

C2_Witness ==
    /\ kind = "hierarchy" /\ Returned /\ viewportSlots > MaxDepth
    /\ StickyOnTop
    /\ \E i \in 2..Len(result) :
          /\ Len(parentsOf(result[i].id)) = 2
          /\ result[i].index >= position
          /\ AncestorsAbove(result, i)

\* the ids the tests of the tree root(child1(grandchild1, grandchild2),
\* child2(grandchild3)) expect at positions 2, 8 and 5 with three slots
C10_Expected(pos) ==
    IF pos = 2
    THEN <<IdRoot \o <<"_", "_", "0">>, IdChild1 \o <<"_", "_", "1">>,
           IdChild2 \o <<"_", "_", "4">>>>
    ELSE IF pos = 8
    THEN <<IdRoot \o <<"_", "_", "6">>, IdChild1 \o <<"_", "_", "7">>,
           IdChild2 \o <<"_", "_", "1", "0">>>>
    ELSE <<IdRoot \o <<"_", "_", "0">>, IdRoot \o <<"_", "_", "6">>,
           IdChild1 \o <<"_", "_", "7">>>>

C10_Case ==
    /\ kind = "hierarchy" /\ Returned
    /\ flatItems = flattenItems(TreeTest, 0, <<>>)
    /\ position \in {2, 5, 8} /\ viewportSlots = 3

\* C10: for the tree root -> child1 -> {grandchild1, grandchild2},
\* root -> child2 -> grandchild3, getItemsAtPosition(2, 3) yields
\* [root__0, child1__1, child2__4], getItemsAtPosition(8, 3) yields
\* [root__6, child1__7, child2__10] and getItemsAtPosition(5, 3) yields
\* [root__0, root__6, child1__7], each with offsets 0, 1, 2.
C10_TestTreeExamples ==
    C10_Case => /\ IdsOf(result) = C10_Expected(position)
                /\ OffsetsInOrder(result, 3)

C10_Witness == C10_Case /\ position = 8 /\ IdsOf(result) = C10_Expected(8)

-----------------------------------------------------------------------------
(* Properties of InfiniteHierarchySelectionStrategy *)

\* shifted is list moved by delta positions: same length, same original ids
\* and offsets, every index moved by exactly delta
SameUpToShift(list, shifted, delta) ==
    /\ Len(shifted) = Len(list)
    /\ \A i \in 1..Len(list) :
          /\ getOriginalId(shifted[i].id) = getOriginalId(list[i].id)
          /\ shifted[i].offset = list[i].offset
          /\ shifted[i].index = list[i].index + delta

\* C3: with N the flattened length, getItemsAtPosition(p, k),
\* getItemsAtPosition(p+N, k) and getItemsAtPosition(p-N, k) agree in length,
\* original ids and offsets, and every index differs by exactly +N and -N; for
\* InfiniteHierarchyStrategy and for the selection variant with nothing selected.
C3_LoopConsistency ==
    (kind = "selection" /\ Returned /\ FlatLength > 0 /\ selectedIds = {})
        => /\ SameUpToShift(result,
                 selGetItemsAtPosition({}, position + FlatLength, viewportSlots),
                 FlatLength)
           /\ SameUpToShift(result,
                 selGetItemsAtPosition({}, position - FlatLength, viewportSlots),
                 0 - FlatLength)
           /\ SameUpToShift(getItemsAtPosition(position, viewportSlots),
                 getItemsAtPosition(position + FlatLength, viewportSlots),
                 FlatLength)
           /\ SameUpToShift(getItemsAtPosition(position, viewportSlots),
                 getItemsAtPosition(position - FlatLength, viewportSlots),
                 0 - FlatLength)

\* the tree q_ -> {c, d} at position 1 with two slots: the header q___0 covers
\* c__1 and its index is NaN, the item below it is d__2 with index 2
C3_TrailingHeader ==
    /\ kind = "selection" /\ Returned /\ selectedIds = {}
    /\ FlatIds = {IdTrailing, <<"c">>, <<"d">>}
    /\ position = 1 /\ viewportSlots = 2
    /\ Len(result) = 2
    /\ result[1].id = <<"q", "_", "_", "_", "0">>
    /\ result[1].index = NaN
    /\ result[2].id = <<"d", "_", "_", "2">>
    /\ result[2].index = 2

C3_Witness ==
    /\ kind = "selection" /\ Returned /\ selectedIds = {}
    /\ FlatLength = 6 /\ position = -1 /\ viewportSlots = 4
    /\ StickyOnTop
    /\ SameUpToShift(result, selGetItemsAtPosition({}, 5, 4), 6)

\* C4: with nothing selected, the selection variant returns the list the base
\* variant returns for the same tree, position and viewport: same length and,
\* item by item, equal id, offset, index and version.
C4_NoSelectionIsBase ==
    (kind = "selection" /\ Returned /\ selectedIds = {})
        => result = getItemsAtPosition(position, viewportSlots)

\* two sticky headers on top, so that the sort of the sticky stack has
\* something to order
C4_Witness ==
    /\ kind = "selection" /\ Returned /\ selectedIds = {}
    /\ Len(result) >= 3
    /\ result[2].index < position
    /\ result = getItemsAtPosition(position, viewportSlots)

OccurrencesOf(id, list) ==
    Cardinality({i \in 1..Len(list) : getOriginalId(list[i].id) = id})

\* C5: for every selected id of the tree, every position and every
\* viewportSlots >= 1, the list returned by the next getItemsAtPosition holds
\* at least one item whose original id is that id.
C5_SelectedAlwaysVisible ==
    (kind = "selection" /\ Returned /\ FlatLength > 0 /\ viewportSlots >= 1)
        => \A id \in selectedIds \cap FlatIds : OccurrencesOf(id, result) >= 1

\* the selected id sits in a natural slot that a sticky header covers
CoveredSelected(id) ==
    \E slot \in 0..(viewportSlots - 1) :
        /\ getOriginalId(naturalSlotAt(position, slot).id) = id
        /\ result[slot + 1].id # naturalSlotAt(position, slot).id

C5_Witness ==
    /\ kind = "selection" /\ Returned /\ FlatLength > 0 /\ viewportSlots >= 2
    /\ \E id \in selectedIds \cap FlatIds :
          /\ CoveredSelected(id)
          /\ OccurrencesOf(id, result) >= 1
    /\ \E id \in selectedIds \cap FlatIds :
          /\ \A slot \in 0..(viewportSlots - 1) :
                getOriginalId(naturalSlotAt(position, slot).id) # id
          /\ OccurrencesOf(id, result) >= 1

\* the flat item after id's is deeper than id's: id has children
HasChildren(id) ==
    /\ flatIndexOf(id) + 2 <= FlatLength
    /\ flatItems[flatIndexOf(id) + 2].depth > flatItemById(id).depth

\* a single selected id of the tree and a viewport that holds the hierarchy
\* and at most one loop iteration
C6_Case(id) ==
    /\ kind = "selection" /\ Returned /\ FlatLength > 0
    /\ selectedIds = {id} /\ id \in FlatIds
    /\ MaxDepth + 1 <= viewportSlots /\ viewportSlots <= FlatLength

EffectiveStack == previousStickyStack \o currentSectionStickyStack

IsSelectedItem(item) == getOriginalId(item.id) \in selectedIds

Elements(list) == {list[i] : i \in 1..Len(list)}

\* what one step of a call in progress does to the selected occurrences of the
\* sticky stack and to the last element of previousStickyStack
C7_Step ==
    (kind = "selection" /\ phase = "resolving") =>
        /\ \A item \in Elements(EffectiveStack) :
              IsSelectedItem(item) =>
                  /\ phase' = "resolving" => item \in Elements(EffectiveStack')
                  /\ phase' = "returned" =>
                        \E i \in 1..Len(result') : result'[i].id = item.id
        /\ (phase' = "resolving" /\ evicted' # <<>>) =>
              /\ previousStickyStack # <<>>
              /\ evicted' = <<previousStickyStack[Len(previousStickyStack)]>>
              /\ ~IsSelectedItem(evicted'[1])
              /\ previousStickyStack' =
                     SubSeq(previousStickyStack, 1, Len(previousStickyStack) - 1)
        /\ (/\ phase' = "resolving" /\ sectionIdx' = sectionIdx
            /\ previousStickyStack # <<>>
            /\ IsSelectedItem(previousStickyStack[Len(previousStickyStack)])) =>
              /\ previousStickyStack' = previousStickyStack
              /\ Len(EffectiveStack') = Len(EffectiveStack) + 1

\* C7: during one getItemsAtPosition call of the selection variant, over all
\* passes of the convergence loop and all sections, an occurrence in the sticky
\* stack whose original id is selected is never removed (it stays in the stack
\* and is in the returned list); the conflict-resolution pop removes the last
\* element of previousStickyStack only when its original id is not selected,
\* and otherwise the stack grows.
C7_NonEviction == [][C7_Step]_vars

\* a parent was pushed in the last pass while the last element of
\* previousStickyStack was selected: nothing was popped
C7_Witness ==
    /\ kind = "selection" /\ phase = "resolving"
    /\ previousStickyStack # <<>>
    /\ IsSelectedItem(previousStickyStack[Len(previousStickyStack)])
    /\ currentSectionStickyStack # <<>>
    /\ ~IsSelectedItem(currentSectionStickyStack[Len(currentSectionStickyStack)])
    /\ evicted = <<>>

\* C8, as claimed: whenever the number of selected ids does not exceed
\* viewportSlots k and k is greater than the maximum depth, the result has
\* exactly k items with offsets 0..k-1.
C8_ExactlyViewportSlots ==
    (/\ kind = "selection" /\ Returned /\ FlatLength > 0
     /\ Cardinality(selectedIds) <= viewportSlots
     /\ viewportSlots > MaxDepth)
        => OffsetsInOrder(result, viewportSlots)

\* C8, amended: the result always has at least k items, with offsets
\* 0, 1, ..., length-1 in order; it has exactly k items whenever
\* (number of selected ids) * (max depth + 1) <= k. Selected items and the
\* ancestors kept above them can grow the sticky stack past k otherwise.
C8_AtLeastViewportSlots ==
    (kind = "selection" /\ Returned /\ FlatLength > 0)
        => /\ Len(result) >= viewportSlots
           /\ OffsetsInOrder(result, Len(result))
           /\ Cardinality(selectedIds) * (MaxDepth + 1) <= viewportSlots
                 => Len(result) = viewportSlots

C8_Witness ==
    /\ kind = "selection" /\ Returned /\ FlatLength > 0
    /\ Cardinality(selectedIds \cap FlatIds) = 2
    /\ MaxDepth >= 1
    /\ Cardinality(selectedIds) * (MaxDepth + 1) <= viewportSlots
    /\ \E id \in selectedIds : CoveredSelected(id)
    /\ OffsetsInOrder(result, viewportSlots)

-----------------------------------------------------------------------------
(* InfiniteLoopStrategy: natural slot mapping *)

\* the items a, b, c in that order, whatever their data
ItemsAreABC ==
    /\ Len(items) = 3
    /\ getItemId(items[1]) = <<"a">>
    /\ getItemId(items[2]) = <<"b">>
    /\ getItemId(items[3]) = <<"c">>

\* C9: for InfiniteLoopStrategy with N >= 1 items, every position p and every
\* slot s in 0..k-1, the s-th returned item has index p+s, offset s, id
\* "<id of items[(p+s) mod N]>__<p+s>" (mod into [0, N)) and the version the
\* strategy currently holds for that id; for items a, b, c,
\* getItemsAtPosition(1, 3) is [b__1, c__2, a__3] and getItemsAtPosition(-1, 3)
\* starts with c__-1.
C9_NaturalSlotMapping ==
    (kind = "loop" /\ Returned /\ Len(items) >= 1) =>
        /\ Len(result) = viewportSlots
        /\ \A s \in 0..(viewportSlots - 1) :
              LET item == items[((position + s) % Len(items)) + 1]
              IN  /\ result[s + 1].index = position + s
                  /\ result[s + 1].offset = s
                  /\ result[s + 1].id =
                         getItemId(item) \o <<"_", "_">> \o NumberToString(position + s)
                  /\ result[s + 1].version =
                         (IF getItemId(item) \in DOMAIN itemVersions
                          THEN itemVersions[getItemId(item)] ELSE Undefined)
        /\ (ItemsAreABC /\ position = 1 /\ viewportSlots = 3) =>
              IdsOf(result) = << <<"b", "_", "_", "1">>, <<"c", "_", "_", "2">>,
                                 <<"a", "_", "_", "3">> >>
        /\ (ItemsAreABC /\ position = -1 /\ viewportSlots = 3) =>
              result[1].id = <<"c", "_", "_", "-", "1">>

\* a query at a negative position that wraps around more than once and shows
\* an item whose version was incremented
C9_Witness ==
    /\ kind = "loop" /\ Returned /\ Len(items) >= 2
    /\ position < 0
    /\ viewportSlots > Len(items)
    /\ \E s \in 1..Len(result) : result[s].version >= 1
    /\ result[1].id # result[Len(items) + 1].id
    /\ getOriginalId(result[1].id) = getOriginalId(result[Len(items) + 1].id)

-----------------------------------------------------------------------------
(* InfiniteHierarchySelectionStrategy: findSafeScrollPosition *)

SafeCalled == kind = "selection" /\ lastCall.name = "findSafeScrollPosition"

\* with id treated as deselected, the list at position q holds an occurrence
\* of id at its natural offset, index - q
NaturallyVisibleAt(id, q, slots) ==
    LET list == selGetItemsAtPosition(selectedIds \ {id}, q, slots)
    IN  \E i \in 1..Len(list) :
            /\ getOriginalId(list[i].id) = id
            /\ list[i].offset = list[i].index - q

\* with id treated as deselected, the list at position q holds id, but only
\* above its natural offset: as a sticky header
OnlyStickyAt(id, q, slots) ==
    /\ isVisible(selGetItemsAtPosition(selectedIds \ {id}, q, slots), id)
    /\ ~NaturallyVisibleAt(id, q, slots)

\* C11: findSafeScrollPosition(id, currentPosition, k) for an id of the tree
\* and k >= 1 returns the first integer position q, scanning downward from
\* floor(currentPosition), at which the list for (q, k), with id treated as
\* deselected, holds id at its natural offset; it never returns a position
\* where id is present only as a sticky header.
C11_FirstNaturalPosition ==
    (SafeCalled /\ getOriginalId(lastCall.id) \in FlatIds) =>
        LET id == getOriginalId(lastCall.id)
            q == floor(answer.value)
        IN  /\ answer.value = Whole(q)
            /\ NaturallyVisibleAt(id, q, lastCall.viewportSlots)
            /\ \A p \in (q + 1)..floor(lastCall.currentPosition) :
                  ~NaturallyVisibleAt(id, p, lastCall.viewportSlots)
            /\ ~OnlyStickyAt(id, q, lastCall.viewportSlots)

\* the call findSafeScrollPosition("root", 2, 2) on the test tree with nothing
\* selected
C11_RootCase ==
    /\ SafeCalled
    /\ flatItems = flattenItems(TreeTest, 0, <<>>)
    /\ selectedIds = {}
    /\ lastCall.id = IdRoot
    /\ lastCall.currentPosition = Whole(2)
    /\ lastCall.viewportSlots = 2

\* there the call answers 2, where root is shown only as the sticky header of
\* its descendants
C11_RootAnsweredSticky ==
    C11_RootCase => /\ answer.value = Whole(2)
                    /\ OnlyStickyAt(IdRoot, 2, 2)
                    /\ NaturallyVisibleAt(IdRoot, 0, 2)

\* a step that is a whole call of findSafeScrollPosition leaves the selection
\* as it was and invokes no callback
C12_Step ==
    (phase = "idle" /\ lastCall'.name = "findSafeScrollPosition") =>
        /\ selectedIds' = selectedIds
        /\ notified' = <<>>

\* C12: findSafeScrollPosition has no observable effect on the selection: on
\* every return path (id unknown, match on the first probe, match found later,
\* bound of 2*N probes exhausted), whether id was selected or not, the
\* selection after the call equals the selection before it and the
\* onSelectionChange callback is not invoked.
C12_SelectionUntouched == [][C12_Step]_vars

\* a call with a registered callback for a selected id of the tree that
\* exhausted its probes: it answered the fractional position it was given
C12_Witness ==
    /\ SafeCalled
    /\ onSelectionChangeCallback
    /\ getOriginalId(lastCall.id) \in FlatIds
    /\ getOriginalId(lastCall.id) \in selectedIds
    /\ lastCall.currentPosition % TSteps # 0
    /\ answer.value = lastCall.currentPosition

\* the other return paths for a selected id: found on the first probe, and
\* found on a later probe
C12_FirstProbe ==
    /\ SafeCalled
    /\ getOriginalId(lastCall.id) \in selectedIds
    /\ answer.value = Whole(floor(lastCall.currentPosition))
    /\ lastCall.currentPosition % TSteps # 0

C12_LaterProbe ==
    /\ SafeCalled
    /\ getOriginalId(lastCall.id) \in selectedIds
    /\ answer.value < Whole(floor(lastCall.currentPosition))

C12_UnknownId ==
    /\ SafeCalled
    /\ onSelectionChangeCallback
    /\ selectedIds # {}
    /\ getOriginalId(lastCall.id) \notin FlatIds

-----------------------------------------------------------------------------
(* getItemData: lookup by the derived original id *)

DataCalled == lastCall.name = "getItemData"

\* the answer is the payload stored under the source id
IsPayloadOf(id) ==
    /\ thrown = "none"
    /\ answer.kind = "data"
    /\ IF kind = "loop" THEN answer.value = itemsById[id]
       ELSE /\ answer.value.id = id
            /\ answer.value.depth = flatItemById(id).depth
            /\ answer.value.parentId =
                   (IF flatItemById(id).parents = <<>> THEN UndefinedId
                    ELSE flatItemById(id).parents[Len(flatItemById(id).parents)])
            /\ kind = "selection" => answer.value.isSelected = (id \in selectedIds)

FailedNotFound == thrown = "NotFound" /\ answer = NotFound

\* C13: for every strategy, getItemData(id) fails with NotFound whenever the
\* original id derived from id by cutting at the last "__" has no entry in the
\* source, and otherwise returns that entry's payload; in particular it fails
\* for a composite id whose derived original id is absent even if the full
\* string id is the id of a source item.
C13_ByOriginalIdOnly ==
    DataCalled =>
        IF getOriginalId(lastCall.id) \in SourceIds
        THEN IsPayloadOf(getOriginalId(lastCall.id))
        ELSE FailedNotFound

\* C13 as the code has it: the two hierarchy strategies look up the derived
\* original id only; InfiniteLoopStrategy falls back to the full id when the
\* derived one has no entry, and fails when neither has one.
C13_LoopFallsBackToFullId ==
    DataCalled =>
        IF getOriginalId(lastCall.id) \in SourceIds
        THEN IsPayloadOf(getOriginalId(lastCall.id))
        ELSE IF kind = "loop" /\ lastCall.id \in SourceIds
             THEN IsPayloadOf(lastCall.id)
             ELSE FailedNotFound

\* InfiniteLoopStrategy answered getItemData("b__2") from the item whose id is
\* b__2, although no item has the id b
C13_Witness ==
    /\ DataCalled /\ kind = "loop"
    /\ lastCall.id = <<"b", "_", "_", "2">>
    /\ <<"b">> \notin SourceIds
    /\ answer.kind = "data"
    /\ answer.value.id = lastCall.id

\* a hierarchy strategy failed for the source id v__1, from which v is derived
C13_HierarchyFailsOnSourceId ==
    /\ DataCalled /\ kind \in {"hierarchy", "selection"}
    /\ lastCall.id = IdComposite
    /\ IdComposite \in SourceIds
    /\ FailedNotFound

\* a hierarchy strategy answered for the composite id v__1__0
C13_HierarchyAnswersComposite ==
    /\ DataCalled /\ kind = "selection"
    /\ lastCall.id = UniqueId(IdComposite, 0)
    /\ IsPayloadOf(IdComposite)
    /\ answer.value.hasChildren

-----------------------------------------------------------------------------
(* InfiniteLoopStrategy: updateItem and setItems *)

\* the step is a whole call of updateItem
UpdateStep == phase = "idle" /\ lastCall'.name = "updateItem"

IsCurrentId(id) == \E i \in 1..Len(items) : getItemId(items[i]) = id

\* what the strategy answers to every query of the model
LoopAnswers ==
    <<[pos \in Positions, slots \in Viewports |-> loopGetItemsAtPosition(pos, slots)],
      [id \in DataIds |-> loopGetItemData(id)]>>

C14_Step ==
    (UpdateStep /\ ~IsCurrentId(lastCall'.id)) =>
        /\ thrown' = "NotFound"
        /\ UNCHANGED <<items, itemsById, itemVersions>>
        /\ LoopAnswers' = LoopAnswers

\* C14: InfiniteLoopStrategy.updateItem(id, data, incrementVersion) with an id
\* that is not the id of any current item fails with NotFound and leaves the
\* item array, the id-to-item map and every version unchanged, so that every
\* later getItemsAtPosition and getItemData result is the same as if the call
\* had not been made.
C14_FailedUpdateChangesNothing == [][C14_Step]_vars

\* a failed updateItem on a strategy that holds items, one of them with an
\* incremented version
C14_Witness ==
    /\ kind = "loop"
    /\ lastCall.name = "updateItem"
    /\ thrown = "NotFound"
    /\ ~IsCurrentId(lastCall.id)
    /\ Len(items) >= 2
    /\ \E id \in DOMAIN itemVersions : itemVersions[id] >= 1

\* the version getItemsAtPosition reports for the item at place p of the array
ReportedVersion(p) == versionOf(getItemId(items[p]))

\* the successful calls of updateItem(id, ..., true) counted so far
CountedUpdates(id) == IF id \in DOMAIN itemVersions THEN itemVersions[id] ELSE 0

\* a successful updateItem(id, data, flag): the version reported for every item
\* is the count of its id's incrementing calls, this call included, and the
\* other items stay as and where they are
C15_UpdateStep ==
    (UpdateStep /\ thrown' = "none") =>
        /\ Len(items') = Len(items)
        /\ \A p \in 1..Len(items') :
              /\ ReportedVersion(p)' =
                     CountedUpdates(getItemId(items'[p]))
                       + (IF getItemId(items'[p]) = lastCall'.id /\ lastCall'.flag
                          THEN 1 ELSE 0)
              /\ p # findIndex(lastCall'.id) + 1 =>
                     /\ items'[p] = items[p]
                     /\ ReportedVersion(p)' = ReportedVersion(p)

\* setItems resets every version to 0
C15_SetItemsStep ==
    (phase = "idle" /\ lastCall'.name = "setItems") =>
        \A p \in 1..Len(items') : ReportedVersion(p)' = 0

\* C15: for InfiniteLoopStrategy, after any sequence of successful updateItem
\* calls since construction or the last setItems, the version reported for an
\* item equals the number of those calls on that item's id made with
\* incrementVersion = true (calls without it leave the version unchanged and
\* setItems resets every version to 0), and each updateItem leaves every other
\* item's payload, version and position in the sequence unchanged.
C15_VersionCountsUpdates == [][C15_UpdateStep /\ C15_SetItemsStep]_vars

\* the data passed to updateItem carries the id it is stored under
KeepsId == \A p \in 1..Len(items) : getItemId(items[p]) \in DOMAIN itemVersions

\* the same, for the calls whose data keeps the id it replaces
C15_HoldsWhenIdIsKept ==
    [][(KeepsId /\ KeepsId') => (C15_UpdateStep /\ C15_SetItemsStep)]_vars

\* updateItem("a", {id: "z"}, true) on [a, b, c] succeeded: the array holds z
\* where a was and no version is stored under z
C15_RenamedItem ==
    /\ kind = "loop"
    /\ lastCall = Call("updateItem", <<"a">>, TRUE)
    /\ thrown = "none"
    /\ Len(items) = 3
    /\ getItemId(items[1]) = IdRenamed
    /\ ReportedVersion(1) = Undefined
    /\ itemVersions[<<"a">>] = 1

-----------------------------------------------------------------------------
(* diffSnapshots: classification of the ids *)

Diffed == kind = "diff" /\ lastCall.name = "diffSnapshots"

SnapshotIds(list) == {list[i].id : i \in 1..Len(list)}

\* the item of a snapshot with the id
InSnapshot(list, id) == CHOOSE item \in Elements(list) : item.id = id

EntriesOf(id) == {i \in 1..Len(interpolatedItems) : interpolatedItems[i].id = id}

\* the entry is as the claim has it for an id of both snapshots, of the floor
\* snapshot only, or of the ceil snapshot only
C16_Classified(e) ==
    LET inFloor == e.id \in SnapshotIds(itemsAtFloor)
        inCeil == e.id \in SnapshotIds(itemsAtCeil)
        floorOffset == InSnapshot(itemsAtFloor, e.id).offset * TSteps
        ceilOffset == InSnapshot(itemsAtCeil, e.id).offset * TSteps
    IN  CASE inFloor /\ inCeil ->
                /\ e.offset * TSteps = floorOffset * TSteps + (ceilOffset - floorOffset) * t
                /\ e.opacity = TSteps
                /\ ~e.isDisappearing
                /\ e.isAppearing = (e.id \notin DOMAIN prevItems)
                /\ e.isSticky = (floorOffset = ceilOffset)
          [] inFloor /\ ~inCeil ->
                /\ e.opacity = TSteps - t
                /\ e.offset = floorOffset - t
                /\ e.isDisappearing /\ ~e.isAppearing
                /\ ~e.isMoving /\ ~e.hasChanged /\ ~e.isSticky
          [] ~inFloor /\ inCeil ->
                /\ e.opacity = t
                /\ e.offset = ceilOffset + TSteps - t
                /\ e.isAppearing /\ ~e.isDisappearing
                /\ ~e.isMoving /\ ~e.hasChanged /\ ~e.isSticky
          [] OTHER -> FALSE

\* C16: diffSnapshots(floor, ceil, t, prev) returns exactly one entry per id in
\* the union of the two snapshots' ids, classified as: id in both -> offset =
\* floorOffset + (ceilOffset - floorOffset)*t, opacity 1, isDisappearing false,
\* isAppearing = (id absent from prev), isSticky = (floorOffset = ceilOffset);
\* id only in floor -> opacity 1 - t, offset = floorOffset - t, isDisappearing
\* true, isAppearing false; id only in ceil -> opacity t, offset = ceilOffset +
\* 1 - t, isAppearing true, isDisappearing false; in the last two cases
\* isMoving, hasChanged and isSticky are false.
C16_DiffClassification ==
    Diffed =>
        /\ \A id \in SnapshotIds(itemsAtFloor) \cup SnapshotIds(itemsAtCeil) :
              Cardinality(EntriesOf(id)) = 1
        /\ \A i \in 1..Len(interpolatedItems) : C16_Classified(interpolatedItems[i])

\* a diff strictly between two positions with one id in both snapshots at
\* different offsets and in the cache, and the other id in one snapshot only
C16_Witness ==
    /\ Diffed
    /\ 0 < t /\ t < TSteps
    /\ Len(interpolatedItems) = 2
    /\ \E i, j \in 1..2 :
          /\ interpolatedItems[i].opacity = TSteps
          /\ ~interpolatedItems[i].isSticky
          /\ ~interpolatedItems[i].isAppearing
          /\ interpolatedItems[j].isDisappearing
          /\ interpolatedItems[j].opacity = TSteps - t

-----------------------------------------------------------------------------
(* TweenList: change detection across frames *)

\* a step that renders the component
RenderStep == kind = "tween" /\ phase = "idle" /\ phase' = "idle"

\* a render at an unchanged scroll position: the snapshots are read again
FrameStep == RenderStep /\ scrollPosition' = scrollPosition

\* since the last frame the strategy was told of updates only
OnlyUpdates == \A call \in sinceFrame : call.name = "updateItem"

Updated(id) == Call("updateItem", id, TRUE) \in sinceFrame

\* the entry's id is in the floor snapshot, in the ceil snapshot and in the
\* cache of the frame before
InAllThree(e) ==
    /\ e.id \in SnapshotIds(itemsAtFloor')
    /\ e.id \in SnapshotIds(itemsAtCeil')
    /\ e.id \in DOMAIN prevItems

C17_Step ==
    /\ (FrameStep /\ OnlyUpdates) =>
          \A i \in 1..Len(interpolatedItems') :
              LET e == interpolatedItems'[i]
              IN  (Updated(getOriginalId(e.id)) /\ InAllThree(e)) => e.hasChanged
    /\ (FrameStep /\ sinceFrame = {}) =>
          \A i \in 1..Len(interpolatedItems') : ~interpolatedItems'[i].hasChanged
    /\ RenderStep =>
          \A i \in 1..Len(interpolatedItems') :
              LET e == interpolatedItems'[i]
              IN  e.hasChanged => /\ e.id \in DOMAIN prevItems
                                  /\ prevItems[e.id].version # e.version

C17_ResetHidesUpdate ==
    (FrameStep /\ Updated(<<"a">>)) =>
        \A i \in 1..Len(interpolatedItems') :
            LET e == interpolatedItems'[i]
            IN  (getOriginalId(e.id) = <<"a">> /\ InAllThree(e)) => e.hasChanged

C17_UpdatesAlwaysDetected == [][C17_ResetHidesUpdate]_vars

-----------------------------------------------------------------------------
(* TweenList: reordering across frames *)

ArrayBefore == <<FrameItem(<<"a">>), FrameItem(<<"b">>), FrameItem(<<"c">>)>>

\* the array before with x inserted after a
ArrayInserted ==
    <<FrameItem(<<"a">>), FrameItem(<<"x">>), FrameItem(<<"b">>),
      FrameItem(<<"c">>)>>

\* the items the insertion pushed one place down
Displaced == {<<"b">>, <<"c">>}

\* the frame before rendered the array before: the cache holds c at place 2,
\* where the inserted array has b
RenderedBefore == <<"c", "_", "_", "2">> \in DOMAIN prevItems

\* a frame at an unchanged scroll position, the first after setItems replaced
\* the array before by the inserted one
InsertedFrame ==
    /\ FrameStep
    /\ sinceFrame = {Call("setItems", <<>>, FALSE)}
    /\ RenderedBefore
    /\ items = ArrayInserted

\* the entry's id is in the floor and in the ceil snapshot of the frame
StaysInViewport(e) ==
    /\ e.id \in SnapshotIds(itemsAtFloor')
    /\ e.id \in SnapshotIds(itemsAtCeil')

\* a render after a scroll, no call to the strategy since the frame before
PureScroll == RenderStep /\ sinceFrame = {} /\ scrollPosition' # scrollPosition

C18_ScrollStep ==
    PureScroll =>
        \A i \in 1..Len(interpolatedItems') : ~interpolatedItems'[i].isMoving

C18_InsertStep ==
    InsertedFrame =>
        \A i \in 1..Len(interpolatedItems') :
            LET e == interpolatedItems'[i]
            IN  (getOriginalId(e.id) \in Displaced /\ StaysInViewport(e))
                    => e.isMoving

\* C18: when an item is inserted into the source of an InfiniteLoopStrategy
\* (setItems with the previous array plus one inserted element) between two
\* frames at an unchanged scroll position, the next frame reports
\* isMoving = true for the displaced items that remain in the viewport, while
\* pure scrolling with unchanged data never reports isMoving = true.
C18_ReorderingDetection == [][C18_InsertStep /\ C18_ScrollStep]_vars

\* the insertion is in and the next frame is due: the cache of the frame before
\* holds b at place 1 and c at place 2, the array now has x at place 1
C18_InsertionPending ==
    /\ kind = "tween" /\ phase = "idle"
    /\ sinceFrame = {Call("setItems", <<>>, FALSE)}
    /\ RenderedBefore
    /\ <<"b", "_", "_", "1">> \in DOMAIN prevItems
    /\ items = ArrayInserted
    /\ scrollPosition = Whole(0)

\* pure scrolling with unchanged data never reports isMoving
C18_ScrollingNeverMoves == [][C18_ScrollStep]_vars

\* over an InfiniteLoopStrategy no frame reports isMoving at all: an id of the
\* cache carries its absolute index
C18_NeverMoving ==
    kind = "tween" =>
        \A i \in 1..Len(interpolatedItems) : ~interpolatedItems[i].isMoving

-----------------------------------------------------------------------------
(* Selection: the change callback *)

SelectionCalls == {"select", "deselect", "toggleSelection"}

\* a step that is a whole call of select, deselect or toggleSelection
SelectionStep ==
    /\ kind = "selection" /\ phase = "idle" /\ phase' = "answered"
    /\ lastCall'.name \in SelectionCalls

\* the selection the call leaves, by the method's name
SelectionAfter(call) ==
    CASE call.name = "select" -> selectedIds \cup {call.id}
      [] call.name = "deselect" -> selectedIds \ {call.id}
      [] call.name = "toggleSelection" ->
            IF call.id \in selectedIds THEN selectedIds \ {call.id}
            ELSE selectedIds \cup {call.id}

C19_Step ==
    (SelectionStep /\ onSelectionChangeCallback) =>
        /\ selectedIds' = SelectionAfter(lastCall')
        /\ Len(notified') = 1
        /\ notified'[1] = selectedIds'

\* C19: once a callback is registered with setOnSelectionChange, every call of
\* select, deselect or toggleSelection invokes it exactly once, after the
\* selection set was updated, with a set equal to the selection as it is after
\* that call; this also holds for calls that leave the set unchanged (select of
\* an already selected id, deselect of an unselected id).
C19_CallbackAfterEveryCall == [][C19_Step]_vars

\* a deselect of an id that is not selected afterwards, with ids still
\* selected: the callback got the selection once
C19_Witness ==
    /\ kind = "selection" /\ phase = "answered"
    /\ onSelectionChangeCallback
    /\ lastCall.name = "deselect"
    /\ selectedIds # {}
    /\ notified = <<selectedIds>>

\* calls that leave the selection unchanged
C19_NoOpStep == (SelectionStep /\ onSelectionChangeCallback) => selectedIds' # selectedIds

C19_EveryCallChanges == [][C19_NoOpStep]_vars

-----------------------------------------------------------------------------
(* Composite ids: the round trip *)

ReadBack == kind = "ids" /\ phase = "answered" /\ lastCall.name = "readBackUniqueId"

ContainsSeparator(id) == SeparatorMatches(id) # {}

EndsWithUnderscore(id) == Len(id) >= 1 /\ id[Len(id)] = "_"

\* C20: for every original id that does not contain the substring "__"
\* (including ids that end with a single "_") and every integer absolute index
\* idx (including negative), cutting the composite id "<id>__<idx>" at the last
\* "__" recovers id (getOriginalId) and parsing the absolute index from it
\* (getAbsoluteIndexFromUniqueId) recovers idx.
C20_RoundTrip ==
    (ReadBack /\ ~ContainsSeparator(lastCall.id)) =>
        /\ answer.originalId = lastCall.id
        /\ answer.absoluteIndex = lastCall.absoluteIndex

\* the id q_ at index 5: q___5 gives back the id q_ and the index NaN
C20_TrailingUnderscore ==
    /\ ReadBack
    /\ lastCall.id = <<"q", "_">>
    /\ lastCall.absoluteIndex = 5
    /\ answer.uniqueId = <<"q", "_", "_", "_", "5">>
    /\ answer.originalId = <<"q", "_">>
    /\ answer.absoluteIndex = NaN

\* the original id is recovered from every id without the separator
C20_OriginalIdRecovered ==
    (ReadBack /\ ~ContainsSeparator(lastCall.id)) =>
        answer.originalId = lastCall.id

\* the index is recovered unless the id ends with an underscore, and then it
\* reads as NaN
C20_IndexUnlessTrailingUnderscore ==
    (ReadBack /\ ~ContainsSeparator(lastCall.id)) =>
        answer.absoluteIndex =
            IF EndsWithUnderscore(lastCall.id) THEN NaN
            ELSE lastCall.absoluteIndex

-----------------------------------------------------------------------------
(* TweenList: the promises of scrollTo *)

Returned_(n) == kind = "scroll" /\ Len(promises) >= n

Resolved(n) == Returned_(n) /\ promises[n].state = "resolved"

\* C21: every promise returned by scrollTo eventually resolves, assuming
\* animation frames keep being delivered; this includes a smooth scrollTo whose
\* animation is superseded by a later scrollTo call issued before its animation
\* finished.
C21_EveryPromiseResolves == \A n \in 1..MaxCalls : Returned_(n) ~> Resolved(n)

\* a smooth scrollTo was superseded: its promise is pending and its animate is
\* not the one requested
C21_Superseded ==
    /\ kind = "scroll"
    /\ \E n \in 1..Len(promises) :
          /\ promises[n].behavior = "smooth"
          /\ promises[n].state = "pending"
          /\ Len(promises) > n
          /\ animationRafRef # n

\* a promise whose animation is never superseded resolves
C21_ResolvesUnlessSuperseded ==
    \A n \in 1..MaxCalls : Returned_(n) ~> (Resolved(n) \/ Returned_(n + 1))

\* a superseded promise stays pending for ever
C21_StaysPending ==
    \A n \in 1..Len(promises) :
        (promises[n].state = "pending" /\ animationRafRef # n)
            => (promises'[n].state = "pending" /\ animationRafRef' # n)

C21_SupersededNeverResolves == [][C21_StaysPending]_vars

-----------------------------------------------------------------------------
(* InfiniteHierarchyStrategy: the exact parent instance *)

\* isParentInstance of the integrity test: the item is the occurrence of the
\* ancestor that belongs to the child's loop iteration
isParentInstance(parentId, childItem, potentialParent) ==
    /\ getOriginalId(potentialParent.id) = parentId
    /\ potentialParent.index =
          childItem.index - (flatIndexOf(getOriginalId(childItem.id))
                                - flatIndexOf(parentId))

\* every ancestor of list[i] has its exact occurrence above list[i]
ExactAncestorsAbove(list, i) ==
    \A n \in 1..Len(parentsOf(list[i].id)) :
        \E j \in 1..(i - 1) :
            isParentInstance(parentsOf(list[i].id)[n], list[i], list[j])

\* C22: for every position, every returned item x and every ancestor id a of x,
\* some returned item at a strictly smaller offset is the occurrence of a that
\* belongs to x's loop iteration: it has original id a and
\* index = x.index - (flatPosition(x) - flatPosition(a)).
C22_ExactParentInstance ==
    (kind = "hierarchy" /\ Returned /\ FlatLength > 0)
        => \A i \in 1..Len(result) : ExactAncestorsAbove(result, i)

\* the same where the hierarchy depth fits in the viewport
C22_ExactParentWhenDepthFits ==
    (kind = "hierarchy" /\ Returned /\ FlatLength > 0 /\ viewportSlots > MaxDepth)
        => \A i \in 1..Len(result) : ExactAncestorsAbove(result, i)


\* position 5 with three slots on the test tree: the header root__0 is left
\* from the loop iteration before, child1__7 stands below root__6 of its own
C22_Witness ==
    /\ kind = "hierarchy" /\ Returned
    /\ position = 5 /\ viewportSlots = 3
    /\ Len(result) = 3
    /\ result[1].index = 0 /\ result[2].index = 6 /\ result[3].index = 7
    /\ Len(parentsOf(result[3].id)) = 1
    /\ isParentInstance(parentsOf(result[3].id)[1], result[3], result[2])
    /\ ~isParentInstance(parentsOf(result[3].id)[1], result[3], result[1])
    /\ ExactAncestorsAbove(result, 3)

\* the tree q_ -> {c, d} at position 1 with two slots: d__2 stands below the
\* header q___0, whose index is NaN and not 0
C22_TrailingParent ==
    /\ kind = "hierarchy" /\ Returned
    /\ FlatIds = {IdTrailing, <<"c">>, <<"d">>}
    /\ position = 1 /\ viewportSlots = 2
    /\ Len(result) = 2
    /\ result[1].id = <<"q", "_", "_", "_", "0">>
    /\ result[1].index = NaN
    /\ result[2].id = <<"d", "_", "_", "2">>
    /\ ~isParentInstance(IdTrailing, result[2], result[1])

-----------------------------------------------------------------------------
(* InfiniteHierarchyStrategy: the convergence loop *)

CombinedLength == Len(previousStickyStack) + Len(currentSectionStickyStack)

\* a pass of the loop that ends with restartSection = true
Restart ==
    /\ kind = "hierarchy"
    /\ phase = "resolving" /\ phase' = "resolving"
    /\ sectionIdx' = sectionIdx

C24_Step == Restart => CombinedLength' = CombinedLength + 1

C24_RestartFindsNothingToPop ==
    [][Restart => (previousStickyStack = <<>> /\ evicted' = <<>>)]_vars

\* a later section is reached with headers on the stack
C24_LaterSection ==
    /\ kind = "hierarchy" /\ phase = "resolving"
    /\ sectionIdx > 1 /\ previousStickyStack # <<>>

-----------------------------------------------------------------------------
(* Both hierarchy strategies: termination of the convergence loop *)

\* the sections of the call in progress
SectionCount ==
    Len(groupItemsIntoSections(generateNaturalSlots(position, viewportSlots)))

\* no call in progress has more headers on its stack than this
StackBound == viewportSlots + Cardinality(selectedIds)

\* what a call in progress has left to do: the sections after the current one,
\* then the headers the stack can still take, then the headers of earlier
\* sections that can still be popped
Measure(sections, section, combined, previous) ==
    (((sections - section) * (StackBound + 1))
        + (StackBound - combined)) * (StackBound + 1)
    + previous

RemainingOf(sections) ==
    Measure(sections, sectionIdx, CombinedLength, Len(previousStickyStack))

Remaining == RemainingOf(SectionCount)

\* the pass of the loop the call in progress runs next
NextPass ==
    LET naturalSlots == generateNaturalSlots(position, viewportSlots)
    IN  IF kind = "hierarchy"
        THEN resolveIteration(naturalSlots, groupItemsIntoSections(naturalSlots),
                              sectionIdx, previousStickyStack,
                              currentSectionStickyStack)
        ELSE selResolveIteration(selectedIds, naturalSlots,
                                 groupItemsIntoSections(naturalSlots),
                                 sectionIdx, previousStickyStack,
                                 currentSectionStickyStack)

RemainingAfter(sections, next) ==
    Measure(sections, next.sec, Len(next.prev) + Len(next.cur), Len(next.prev))

Decreases(sections, next) ==
    \/ next.done
    \/ /\ RemainingAfter(sections, next) < RemainingOf(sections)
       /\ RemainingAfter(sections, next) >= 0

\* C23: for every tree, position, viewportSlots >= 0 and, in the selection
\* variant, every selection set, the per-section convergence loop of
\* getItemsAtPosition reaches a state with no restart pending after finitely
\* many iterations, in InfiniteHierarchyStrategy and in
\* InfiniteHierarchySelectionStrategy: every pass that does not end the loop
\* takes at least one from a number that is never negative.
C23_LoopTerminates ==
    (kind \in {"hierarchy", "selection"} /\ phase = "resolving") =>
        LET sections == SectionCount
            next == NextPass
        IN  Decreases(sections, next)

\* a call of the selection variant after three passes or more: three headers
\* are on the stack and the loop is still running
C23_Witness ==
    /\ kind = "selection" /\ phase = "resolving"
    /\ selectedIds # {}
    /\ CombinedLength >= 3
    /\ Remaining > 0

\* the stack of a call in progress stays within the bound
C23_StackBounded ==
    phase = "resolving" => (CombinedLength <= StackBound /\ sectionIdx <= SectionCount)

-----------------------------------------------------------------------------
(* InfiniteHierarchySelectionStrategy: the pre-seeded sticky stack *)

\* getItemsAtPosition has built the initial stack and no pass of the loop has
\* run; with no natural slot there is no section and the call returns the
\* initial stack, composed, at once
Seeded ==
    /\ kind = "selection"
    /\ Len(flatItems) > 0
    /\ \/ phase = "resolving" /\ sectionIdx = 1 /\ currentSectionStickyStack = <<>>
       \/ phase = "returned" /\ viewportSlots = 0

SeededStack == IF phase = "resolving" THEN previousStickyStack ELSE result

NaturalIds ==
    {getOriginalId(naturalSlotAt(position, o).id) : o \in 0..(viewportSlots - 1)}

SeededAt(stack, id) == {j \in 1..Len(stack) : getOriginalId(stack[j].id) = id}

ClosestAtOrBefore(id, i) ==
    /\ i % Len(flatItems) = flatIndexOf(id)
    /\ position - Len(flatItems) < i
    /\ i <= position

\* C25: pre-seeding in InfiniteHierarchySelectionStrategy: for every integer
\* position p (negative ones too), every viewport and every selected id of the
\* tree that is not among the natural slots, the initial sticky stack holds
\* exactly one occurrence of that id, whose absolute index i has i mod N = the
\* flat position of the id and p - N < i <= p; ids among the natural slots are
\* not seeded, and the seeded entries are in ascending order of index.
C25_PreSeeding ==
    Seeded =>
        /\ \A id \in selectedIds \cap FlatIds :
              IF id \in NaturalIds
              THEN SeededAt(SeededStack, id) = {}
              ELSE /\ Cardinality(SeededAt(SeededStack, id)) = 1
                   /\ \A j \in SeededAt(SeededStack, id) :
                         /\ ClosestAtOrBefore(id, SeededStack[j].index)
                         /\ SeededStack[j].id = UniqueId(id, SeededStack[j].index)
        /\ \A j \in 1..Len(SeededStack) :
              getOriginalId(SeededStack[j].id) \in selectedIds \ NaturalIds
        /\ \A j \in 1..(Len(SeededStack) - 1) :
              SeededStack[j].index < SeededStack[j + 1].index

\* two selected ids outside a viewport at a negative position are seeded
C25_Witness ==
    /\ Seeded /\ phase = "resolving"
    /\ position < 0
    /\ Len(previousStickyStack) >= 2
    /\ \E id \in selectedIds : id \in NaturalIds

\* with no natural slot the occurrence at the position itself is seeded
C25_AtPosition ==
    /\ Seeded /\ phase = "returned"
    /\ \E j \in 1..Len(result) : result[j].index = position

-----------------------------------------------------------------------------
(* Both hierarchy strategies: the composition of the result *)

\* the call composes its result: the pass that comes next ends the loop, or
\* the selection variant has no natural slot and composes the seeded stack
Composing ==
    \/ /\ kind \in {"hierarchy", "selection"}
       /\ phase = "resolving"
       /\ NextPass.done
    \/ /\ kind = "selection" /\ phase = "returned"
       /\ viewportSlots = 0 /\ Len(flatItems) > 0

\* finalStickyList, and the list the call returns
FinalStickyList ==
    IF phase = "resolving" THEN NextPass.prev \o NextPass.cur
    ELSE getInitialSelectedStickyStack(selectedIds, position, <<>>)

FinalResult == IF phase = "resolving" THEN NextPass.result ELSE result

WithOffset(item, o) == [item EXCEPT !.offset = o]

\* the sticky entries of the result are those of the stack, in the order of
\* the stack
InStackOrder(stack, list) ==
    \A j \in 1..Len(stack) : list[j] = WithOffset(stack[j], j - 1)

TimesIn(list, n, x) == Cardinality({j \in 1..n : WithOffset(list[j], 0) = x})

\* the sticky entries of the result are those of the stack, each as often as
\* the stack holds it, in ascending order of index as the sort compares it
InIndexOrder(stack, list) ==
    /\ \A j \in 1..Len(stack) : list[j].offset = j - 1
    /\ \A j \in 1..(Len(stack) - 1) : compareByIndex(list[j], list[j + 1]) <= 0
    /\ \A j \in 1..Len(stack) :
          /\ TimesIn(list, Len(stack), WithOffset(stack[j], 0))
                = TimesIn(stack, Len(stack), WithOffset(stack[j], 0))
          /\ TimesIn(list, Len(stack), WithOffset(list[j], 0))
                = TimesIn(stack, Len(stack), WithOffset(list[j], 0))

Composed(stack, list) ==
    /\ Len(list) = IF Len(stack) > viewportSlots THEN Len(stack) ELSE viewportSlots
    /\ IF kind = "hierarchy" THEN InStackOrder(stack, list)
       ELSE InIndexOrder(stack, list)
    /\ \A o \in Len(stack)..(viewportSlots - 1) :
          list[o + 1] = naturalSlotAt(position, o)

C26_WitnessBase ==
    /\ Composing /\ kind = "hierarchy"
    /\ Len(FinalStickyList) >= 2
    /\ viewportSlots > Len(FinalStickyList)

\* the selection variant pushes in an order that is not the order of index
C26_StackOutOfOrder ==
    /\ Composing /\ kind = "selection" /\ phase = "resolving"
    /\ \E j \in 1..(Len(FinalStickyList) - 1) :
          FinalStickyList[j].index > FinalStickyList[j + 1].index

-----------------------------------------------------------------------------
(* The three strategies that return composite ids *)

InitLists == InitLoop \/ InitConverge

NextLists == NextLoop \/ NextConverge

SpecLists == InitLists /\ [][NextLists]_vars

\* the items of an InfiniteLoopStrategy have ids of their own
UniqueItemIds ==
    \A i, j \in 1..Len(items) : getItemId(items[i]) = getItemId(items[j]) => i = j

PairwiseDistinct(list) == \A i, j \in 1..Len(list) : list[i].id = list[j].id => i = j

\* C27: within one result of getItemsAtPosition, for InfiniteLoopStrategy with
\* unique item ids, InfiniteHierarchyStrategy and
\* InfiniteHierarchySelectionStrategy (any selection set), all composite ids
\* are pairwise distinct: a sticky header or pinned selected occurrence never
\* has the composite id of another sticky entry or of a natural item that is
\* still in the result.
C27_DistinctIds ==
    (/\ Returned
     /\ kind \in {"loop", "hierarchy", "selection"}
     /\ kind = "loop" => UniqueItemIds) => PairwiseDistinct(result)

\* a result of the selection variant that holds a pinned occurrence, a header
\* and a natural item of the same loop
C27_Witness ==
    /\ Returned /\ kind = "selection"
    /\ selectedIds # {}
    /\ Len(result) >= 4
    /\ result[2].index < position
    /\ \E j \in 1..Len(result) : result[j].index >= position
    /\ \E i, j \in 1..Len(result) :
          i # j /\ getOriginalId(result[i].id) = getOriginalId(result[j].id)

\* a result of the loop strategy that wraps around
C27_WitnessLoop ==
    /\ Returned /\ kind = "loop" /\ UniqueItemIds
    /\ \E i, j \in 1..Len(result) :
          i # j /\ getOriginalId(result[i].id) = getOriginalId(result[j].id)

\* items of a loop strategy that share an id after updateItem
C27_SharedId == kind = "loop" /\ ~UniqueItemIds

-----------------------------------------------------------------------------
(* Both hierarchy strategies: the order of the absolute indices *)

\* a < b for indices as JavaScript compares them: no comparison with NaN holds
IndexBelow(a, b) == a # NaN /\ b # NaN /\ a < b

Ascending(list) ==
    \A j \in 1..(Len(list) - 1) : IndexBelow(list[j].index, list[j + 1].index)

\* C28: in every result of getItemsAtPosition of InfiniteHierarchyStrategy and
\* of InfiniteHierarchySelectionStrategy (any selection set) the absolute index
\* is strictly increasing with the offset: every sticky entry has a smaller
\* index than every entry below it, and in InfiniteHierarchyStrategy, which
\* does not sort its stack, the push/pop order alone yields ascending indices.
C28_IndexIncreasing ==
    /\ (Returned /\ kind \in {"hierarchy", "selection"}) => Ascending(result)
    /\ (kind = "hierarchy" /\ phase = "resolving") =>
          Ascending(previousStickyStack \o currentSectionStickyStack)

\* a stack of the base strategy with two headers and more
C28_Witness ==
    /\ kind = "hierarchy" /\ phase = "resolving"
    /\ CombinedLength >= 2

\* a result of the selection variant with pinned and natural items
C28_WitnessSelection ==
    /\ Returned /\ kind = "selection" /\ selectedIds # {}
    /\ Len(result) >= 4
    /\ result[2].index < position
    /\ result[Len(result)].index > position

\* the header of a parent whose id ends in an underscore has no index
C28_TrailingHeader ==
    /\ Returned /\ kind = "hierarchy"
    /\ Len(result) = 2
    /\ result[1].index = NaN
    /\ result[2].index = position + 1

-----------------------------------------------------------------------------
(* InfiniteLoopStrategy: getItemData of the ids getItemsAtPosition returned *)

Accepted(list) == \A j \in 1..Len(list) : loopGetItemData(list[j].id) # NotFound

\* C29: for InfiniteLoopStrategy, after any sequence of successful updateItem
\* and setItems calls (an updateItem whose new data carries another id than
\* the one it replaces included), every id returned by getItemsAtPosition is
\* accepted by getItemData without NotFound, so a render pass that calls
\* getItemData for every returned item never throws.
C29_ReturnedIdsAccepted == (kind = "loop" /\ Returned) => Accepted(result)

\* the same while every item is stored under the id its data carries
C29_AcceptedWhenIdIsKept == (kind = "loop" /\ Returned /\ KeepsId) => Accepted(result)

\* after updateItem("a", {id: "z"}) on [a, b, c], getItemsAtPosition(0, 3)
\* returns z__0, which getItemData does not find
C29_RenamedReturned ==
    /\ kind = "loop" /\ Returned
    /\ position = 0 /\ viewportSlots = 3
    /\ Len(items) = 3
    /\ getItemId(items[1]) = IdRenamed
    /\ result[1].id = UniqueId(IdRenamed, 0)
    /\ IdRenamed \notin DOMAIN itemsById
    /\ loopGetItemData(result[1].id) = NotFound
    /\ loopGetItemData(result[2].id) # NotFound

-----------------------------------------------------------------------------
(* InfiniteHierarchySelectionStrategy: loop consistency with a selection *)

\* C30: for InfiniteHierarchySelectionStrategy with any fixed non-empty
\* selection set, flattened length N, every position p (negative ones too) and
\* viewport k, getItemsAtPosition(p, k) and getItemsAtPosition(p+N, k) have the
\* same length and the same sequence of original ids and offsets, and every
\* item's index, those of pre-seeded and rescued selected occurrences
\* included, differs by exactly N.
C30_LoopConsistencySelected ==
    (kind = "selection" /\ Returned /\ FlatLength > 0 /\ selectedIds # {})
        => SameUpToShift(result,
               selGetItemsAtPosition(selectedIds, position + FlatLength, viewportSlots),
               FlatLength)

\* the tree q_ -> {c, d} with d selected, position 1, two slots: the header
\* q___0 has no index, here and one loop iteration later
C30_TrailingSelected ==
    /\ kind = "selection" /\ Returned
    /\ FlatIds = {IdTrailing, <<"c">>, <<"d">>}
    /\ selectedIds = {<<"d">>}
    /\ position = 1 /\ viewportSlots = 2
    /\ Len(result) = 2
    /\ result[1].id = <<"q", "_", "_", "_", "0">>
    /\ result[1].index = NaN
    /\ result[2].id = <<"d", "_", "_", "2">>
    /\ selGetItemsAtPosition(selectedIds, 4, 2)[1].id = <<"q", "_", "_", "_", "3">>
    /\ selGetItemsAtPosition(selectedIds, 4, 2)[1].index = NaN

\* no stack of that tree holds more than two entries
C30_TrailingStackOfTwo ==
    (FlatIds = {IdTrailing, <<"c">>, <<"d">>} /\ phase = "resolving") => CombinedLength <= 2

====
